---- MODULE Spec2Model ----
(***************************************************************************)
(* Model of the jio-mosaic composition and animation engine.               *)
(*                                                                         *)
(* Part 1 (SpecGen): generateMosaic of the MosaicCanvas component          *)
(*   (src/unnamed/part_002, lines 436-746): glyph metrics, pool selection, *)
(*   the rejection-sampling loop and the I-dot placement.                  *)
(*                                                                         *)
(* Part 2 (SpecComp): the MosaicCanvas component around it                 *)
(*   (src/unnamed/part_002, lines 345-434 and 822-1322): the image-load    *)
(*   effect and its cleanup, the frame loop, the auto-popup effect with    *)
(*   its timers, and the pointer handlers.                                 *)
(*                                                                         *)
(* Lengths are integers in units of 1/Sub pixel; a Math.random() result is *)
(* a numerator over RandDen; times are in milliseconds.                    *)
(***************************************************************************)
EXTENDS Integers, Sequences, FiniteSets, TLC

VARIABLES
    loadedData,     \* generateMosaic's argument: the images that loaded, in supplied order
    maskData,       \* alpha channel of mCtx.getImageData(...).data, by pixel
    placements,     \* the local array `placements` of generateMosaic
    attempts,       \* the loop counter `attempts`
    genPc,          \* position inside generateMosaic: "loop", "done"
    placementsRef,  \* placementsRef.current
    mounted,        \* the component is mounted (canvasRef.current is the canvas)
    images,         \* the images prop
    changes,        \* number of times the images prop was replaced
    passCount,      \* number of generation passes started (runs of loadImages)
    effectPass,     \* the pass whose effect cleanup is registered, 0 when none
    pass,           \* per pass: the closure state of the image-load effect and of animate
    isGenerating,   \* useState isGenerating
    downloadUrl,    \* useState downloadUrl
    hoveredImage,   \* useState hoveredImage
    activeTile,     \* useState activeTile
    isExpanded,     \* useState isExpanded
    lastInteractionRef, \* lastInteractionRef.current
    popupCountRef,  \* popupCountRef.current
    initialTimer,   \* due time of the popup effect's initialTimer
    intervalId,     \* next due time of the popup effect's interval
    nestedTimers,   \* pending expand, collapse and remove timeouts of triggerPopup,
                    \* each with the images prop (its change count) it was set under
    pointerEvents,  \* number of pointer events delivered
    popupPosition,  \* useState popupPosition
    lastDraw,       \* the last draw call on the canvas: which pass, which branch
    now,            \* performance.now()
    settings,       \* the Settings document of the server (its mode)
    imageRecords,   \* the Image collection of the server, in creation order
    uploads,        \* POST /api/upload requests, each with its position in the handler
    settingsPosts,  \* POST /api/settings requests on their way to the server
    displayMode,    \* DisplayPage: useState mode
    displayImages,  \* DisplayPage: useState images
    settingsReplies,\* DisplayPage: responses of GET /api/settings not yet delivered
    imageReplies,   \* DisplayPage: responses of GET /api/images not yet delivered
    slots,          \* generateCanvasMosaic: slots.length, the slots being 1..slots
    renderPc,       \* generateCanvasMosaic: position of render()
    isDestroyed,    \* generateCanvasMosaic: isDestroyed
    activeRafId,    \* generateCanvasMosaic: activeRafId
    activeTimeoutId,\* generateCanvasMosaic: activeTimeoutId
    rafCallbacks,   \* frame callbacks requested and neither run nor cancelled
    timeouts,       \* timeouts set and neither fired nor cleared
    handles,        \* number of ids handed out by requestAnimationFrame and setTimeout
    dotImg,         \* render: dotImg is an image (not null)
    loadedBodyImages, \* render: loadedBodyImages.length (while they load: uniqueBodyUrls.length)
    startTime,      \* render: startTime
    drawnCount,     \* render: drawnCount
    drawLog,        \* the fill's draw calls on ctx in order: the slots drawn, the dot
    startSpotlight, \* triggerSpotlight: startSpotlight
    timestamp,      \* the clock that stamps the frame callbacks
    runs,           \* batch renderer: per run of the effect, its closure
    currentRun,     \* batch renderer: the run whose cleanup is registered, 0 when none
    intervalRef,    \* batch renderer: intervalRef.current (the run that set it)
    liveIntervals,  \* batch renderer: intervals set and not cleared, by run
    drawCalls,      \* batch renderer: the placements drawn on the canvas, in order
    layoutImages,   \* generateMosaicLayout: the argument images
    layoutResult    \* generateMosaicLayout: the returned placements

genVars == <<loadedData, maskData, placements, attempts, genPc>>

compVars == <<mounted, images, changes, passCount, effectPass, pass, isGenerating,
              downloadUrl, hoveredImage, activeTile, isExpanded, lastInteractionRef,
              popupCountRef, initialTimer, intervalId, nestedTimers, pointerEvents, popupPosition,
              lastDraw, now>>

mosaicVars == <<genVars, compVars, placementsRef>>

siteVars == <<settings, imageRecords, uploads, settingsPosts, displayMode, displayImages,
              settingsReplies, imageReplies>>

engineVars == <<slots, renderPc, isDestroyed, activeRafId, activeTimeoutId, rafCallbacks,
                timeouts, handles, dotImg, loadedBodyImages, startTime, drawnCount, drawLog,
                startSpotlight, timestamp>>

batchVars == <<runs, currentRun, intervalRef, liveIntervals, drawCalls>>

layoutVars == <<layoutImages, layoutResult>>

otherVars == <<siteVars, engineVars, batchVars, layoutVars>>

vars == <<loadedData, maskData, placements, attempts, genPc, placementsRef,
          mounted, images, changes, passCount, effectPass, pass, isGenerating,
          downloadUrl, hoveredImage, activeTile, isExpanded, lastInteractionRef,
          popupCountRef, initialTimer, intervalId, nestedTimers, pointerEvents, popupPosition,
          lastDraw, now, otherVars>>

----------------------------------------------------------------------------
(* Bounds of the model *)

\* units per pixel (resolution of a sampled coordinate)
Sub == 400
\* denominator of a modelled Math.random() result
RandDen == 1400
\* number of images handed to generateMosaic
MaxImages == 2
\* targetCount of the source (5000), scaled down
targetCount == 2
\* maxAttempts of the source (100000), scaled down
maxAttempts == 3

(* Output surface and font, as the browser reports them *)

\* canvas.width, in pixels
width == 7
\* canvas.height, in pixels
height == 5
\* measureText('J').width per font size, in percent
jEm == 60
\* measureText(dotless i).width per font size, in percent
iEm == 40
\* measureText('o').width per font size, in percent
oEm == 80

W == width * Sub
H == height * Sub

----------------------------------------------------------------------------
(* Dynamic font sizing *)

\* gapFactor = 0.05, in percent
gapFactor == 5

measureJio(size) ==
    LET j == (size * jEm) \div 100
        i == (size * iEm) \div 100
        o == (size * oEm) \div 100
        gap == -((size * gapFactor) \div 100)
    IN  [totalW |-> j + gap + i + gap + o, j |-> j, i |-> i, o |-> o, gap |-> gap]

targetWidth == (W * 85) \div 100
targetHeight == (H * 85) \div 100

fontSize ==
    LET m0 == measureJio(H)
        f1 == IF m0.totalW > targetWidth THEN (H * targetWidth) \div m0.totalW ELSE H
    IN  IF f1 > targetHeight THEN targetHeight ELSE f1

metrics == measureJio(fontSize)

startX == (W - metrics.totalW) \div 2
centerY == (H * 6) \div 10
iX == startX + metrics.j + metrics.gap
oX == iX + metrics.i + metrics.gap

baseSize == fontSize \div 14

\* anchor of the I-dot
iCenterX == iX + metrics.i \div 2
dotRadius == fontSize \div 10
dotY == centerY - (fontSize * 38) \div 100

----------------------------------------------------------------------------
(* Pool selection *)

IsPresident(d) == d.isPresident
IsCommon(d) == ~d.isPresident

allPresidentData(data) == SelectSeq(data, IsPresident)

presidentData_first(data) ==
    LET all == allPresidentData(data)
    IN  IF Len(all) > 0 THEN <<all[1]>> ELSE <<>>

\* the latest president image, as a sequence of length 0 (undefined) or 1
presidentData(data) ==
    LET all == allPresidentData(data)
    IN  IF Len(all) > 0 THEN <<all[Len(all)]>> ELSE <<>>

validCommonData(data) == SelectSeq(data, IsCommon)

poolData_noExclusion(data) == data

poolData_offByOne(data) ==
    IF Len(validCommonData(data)) > 1 THEN validCommonData(data) ELSE data

poolData(data) ==
    IF Len(validCommonData(data)) > 0 THEN validCommonData(data) ELSE data

loadedImages(data) == [k \in 1..Len(poolData(data)) |-> poolData(data)[k].img]

\* the thumbnail cache: one normal and one blurred crop per pool image
thumbnails(data) ==
    [k \in 1..Len(loadedImages(data)) |->
        [normal  |-> [kind |-> "thumb", key |-> k, src |-> loadedImages(data)[k]],
         blurred |-> [kind |-> "blurred", key |-> k, src |-> loadedImages(data)[k]]]]

----------------------------------------------------------------------------
(* The rejection-sampling loop *)

\* cx = Math.random() * width, cy = Math.random() * height
SampleX(n) == (n * W) \div RandDen
SampleY(n) == (n * H) \div RandDen

\* targetSize = baseSize * (0.85 + Math.random() * 0.4)
targetSize(n) == (baseSize * (85 * RandDen + 40 * n)) \div (100 * RandDen)

\* Math.floor of a coordinate, in pixels
Floor(c) == c \div Sub

\* maskData[pixelIndex + 3] with pixelIndex = (floor(cy) * width + floor(cx)) * 4
alphaAt(cx, cy) == maskData[Floor(cy) * width + Floor(cx)]

maskRejects_strict(cx, cy) == alphaAt(cx, cy) < 128

maskRejects(cx, cy) == alphaAt(cx, cy) <= 128

\* distSq < minDist * minDist with minDist = (radius + p.w / 2) * 0.7,
\* both sides multiplied by 400
tooClose(cx, cy, w, p) ==
    LET dx == cx - p.cx
        dy == cy - p.cy
    IN  400 * (dx * dx + dy * dy) < 49 * (w + p.w) * (w + p.w)

collision_skipFirst(ps, cx, cy, w) ==
    \E i \in 2..Len(ps) : tooClose(cx, cy, w, ps[i])

collision(ps, cx, cy, w) ==
    \E i \in 1..Len(ps) : tooClose(cx, cy, w, ps[i])

groupOf(cx) == IF cx < iX THEN "J" ELSE IF cx < oX THEN "I" ELSE "O"

newTile_mixedCache(ps, data, cx, cy, w) ==
    LET set == thumbnails(data)[1]
        srcImg == loadedImages(data)[(Len(ps) % Len(loadedImages(data))) + 1]
    IN  [cx |-> cx, cy |-> cy, w |-> w, h |-> w, angle |-> 0,
         img |-> srcImg, thumb |-> set.normal, blurredThumb |-> set.blurred,
         isDot |-> FALSE, group |-> groupOf(cx)]

newTile(ps, data, cx, cy, w) ==
    LET set == thumbnails(data)[(Len(ps) % Len(thumbnails(data))) + 1]
        srcImg == loadedImages(data)[(Len(ps) % Len(loadedImages(data))) + 1]
    IN  [cx |-> cx, cy |-> cy, w |-> w, h |-> w, angle |-> 0,
         img |-> srcImg, thumb |-> set.normal, blurredThumb |-> set.blurred,
         isDot |-> FALSE, group |-> groupOf(cx)]

\* the body of one loop iteration: mask check, collision check, place
sampleStep(ps, data, nx, ny, ns) ==
    LET cx == SampleX(nx)
        cy == SampleY(ny)
        w == targetSize(ns)
    IN  IF maskRejects(cx, cy) THEN ps
        ELSE IF collision(ps, cx, cy, w) THEN ps
        ELSE Append(ps, newTile(ps, data, cx, cy, w))

loopCond_offByOne(ps, n) == Len(ps) < targetCount /\ n <= maxAttempts

loopCond(ps, n) == Len(ps) < targetCount /\ n < maxAttempts

dotImage(data) ==
    IF presidentData(data) # <<>> THEN presidentData(data)[1].img
    ELSE loadedImages(data)[1]

dotTile(data) ==
    [cx |-> iCenterX, cy |-> dotY, w |-> dotRadius * 2, h |-> dotRadius * 2, angle |-> 0,
     img |-> dotImage(data), thumb |-> dotImage(data), blurredThumb |-> [kind |-> "none"],
     isDot |-> TRUE, group |-> "DOT"]

withDot_tested(ps, data) ==
    IF maskRejects(iCenterX, dotY) \/ collision(ps, iCenterX, dotY, dotRadius * 2)
    THEN ps
    ELSE Append(ps, dotTile(data))

\* placements.push({... isDot: true ...}) after the loop, unconditionally
withDot(ps, data) == Append(ps, dotTile(data))

----------------------------------------------------------------------------
(* Inputs of a generation pass *)

Image(k) == [kind |-> "image", id |-> k]

\* every list of 1..MaxImages loaded images, each flagged president or not
LoadedLists ==
    UNION {{[k \in 1..n |-> [img |-> Image(k), isPresident |-> f[k]]] :
                f \in [1..n -> BOOLEAN]} : n \in 1..MaxImages}

\* the values Math.random() takes in the model, by use
RandX == {150, 190, 595, 850}
RandY == {490, 840, 896}
RandSize == {0, 1365}

Pixel(cx, cy) == Floor(cy) * width + Floor(cx)

\* rendered glyph: opaque in the J, soft edges in the i and the o
GlyphAlpha(nx, ny) ==
    IF ny = 490 THEN (IF nx = 595 THEN 255 ELSE 0)
    ELSE IF nx = 595 THEN 129
    ELSE IF nx = 850 THEN 128
    ELSE 255

\* a fainter rendering: the J stays at the threshold
EdgeAlpha(nx, ny) ==
    IF ny = 490 THEN 0
    ELSE IF nx = 595 THEN 255
    ELSE IF nx = 850 THEN 129
    ELSE 128

\* the raster of a rendering: its alpha at the pixel of each sampled point
Raster(rendering) ==
    [i \in 0..(width * height - 1) |->
        LET hits == {s \in RandX \X RandY : Pixel(SampleX(s[1]), SampleY(s[2])) = i}
        IN  IF hits = {} \/ rendering = "empty" THEN 0
            ELSE LET s == CHOOSE s \in hits : TRUE
                 IN  IF rendering = "glyph" THEN GlyphAlpha(s[1], s[2])
                     ELSE EdgeAlpha(s[1], s[2])]

MaskGlyph == Raster("glyph")
MaskEdge == Raster("edge")
\* nothing rendered: no pixel is valid
MaskEmpty == Raster("empty")

Masks == {MaskGlyph, MaskEdge, MaskEmpty}

-----------------------------------------------------------------------------
(* The hooks of the component before any image is supplied *)

None == -1

\* fractions are carried in thousandths
Thousand == 1000

\* number of times the images prop is replaced
MaxChanges == 2

\* the canvases generateMosaic creates: for measuring, the mask, the scatter
\* canvas and the thumbnail cache
PassBuffers == {"tempCanvas", "maskCanvas", "mosaicCanvas", "thumbnails"}

IdlePass == [st |-> "idle", imgs |-> <<>>, isMounted |-> FALSE, startTime |-> None,
             frameDue |-> None, placements |-> <<>>, durationOffset |-> <<>>,
             buffers |-> {}, error |-> FALSE, origin |-> <<>>]

NoDraw == [pass |-> 0, kind |-> "none", tiles |-> {}]
\* activeTile null; a shown tile carries the id it was given (Math.random() in
\* the code, here the image-set number and the popup count)
NoTile == [img |-> [kind |-> "none"], index |-> 0, id |-> <<0, 0>>]
\* downloadUrl holds what canvas.toDataURL() encoded: the draw it is a snapshot of
NoUrl == NoDraw

\* state of the hooks after the first render with no images
CompIdle ==
    /\ mounted = TRUE
    /\ images = <<>>
    /\ changes = 0
    /\ passCount = 0
    /\ effectPass = 0
    /\ pass = [p \in 1..MaxChanges |-> IdlePass]
    /\ isGenerating = FALSE
    /\ downloadUrl = NoUrl
    /\ hoveredImage = [kind |-> "none"]
    /\ activeTile = NoTile
    /\ isExpanded = FALSE
    /\ lastInteractionRef = 0
    /\ popupCountRef = 0
    /\ initialTimer = None
    /\ intervalId = None
    /\ nestedTimers = {}
    /\ pointerEvents = 0
    /\ popupPosition = [x |-> 0, y |-> 0]
    /\ lastDraw = NoDraw
    /\ now = 0

----------------------------------------------------------------------------
(* The rest of the site, idle *)

\* The site around the component: the server's Settings document and Image
\* collection, and the display page that polls them.  The engine field of the
\* settings is left out: no step modelled here reads it.
MaxUploads == 2

\* requests of one kind the polling page or a client has under way at a time
MaxInFlight == 1

\* const validModes = ['UPLOAD', 'WAITING', 'MOSAIC']
ValidModes == {"UPLOAD", "WAITING", "MOSAIC"}

\* an upload request that has not arrived yet
NoUpload == [pc |-> "idle", isPresident |-> FALSE, status |-> 0]

\* the server before any request and the display page before it is opened
SiteIdle ==
    /\ settings = [mode |-> "UPLOAD"]
    /\ imageRecords = <<>>
    /\ uploads = [u \in 1..MaxUploads |-> NoUpload]
    /\ settingsPosts = {}
    /\ displayMode = "UPLOAD"
    /\ displayImages = <<>>
    /\ settingsReplies = {}
    /\ imageReplies = {}

\* no controller has been created
EngineIdle ==
    /\ slots = 0
    /\ renderPc = "none"
    /\ isDestroyed = FALSE
    /\ activeRafId = None
    /\ activeTimeoutId = None
    /\ rafCallbacks = {}
    /\ timeouts = {}
    /\ handles = 0
    /\ dotImg = FALSE
    /\ loadedBodyImages = 0
    /\ startTime = None
    /\ drawnCount = 0
    /\ drawLog = <<>>
    /\ startSpotlight = None
    /\ timestamp = 0

\* the batch renderer is not mounted
BatchIdle ==
    /\ runs = <<>>
    /\ currentRun = 0
    /\ intervalRef = None
    /\ liveIntervals = {}
    /\ drawCalls = <<>>

\* generateMosaicLayout has not been called
LayoutIdle ==
    /\ layoutImages = <<>>
    /\ layoutResult = <<>>

OthersIdle == SiteIdle /\ EngineIdle /\ BatchIdle /\ LayoutIdle

----------------------------------------------------------------------------
(* generateMosaic, step by step *)

GenInit ==
    /\ loadedData \in LoadedLists
    /\ maskData \in Masks
    /\ placements = <<>>
    /\ attempts = 0
    /\ genPc = "loop"
    /\ OthersIdle
    /\ placementsRef = <<>>
    /\ CompIdle

\* one iteration of the while loop
Sample(nx, ny, ns) ==
    /\ genPc = "loop"
    /\ loopCond(placements, attempts)
    /\ attempts' = attempts + 1
    /\ placements' = sampleStep(placements, loadedData, nx, ny, ns)
    /\ UNCHANGED <<loadedData, maskData, genPc, placementsRef>>
    /\ UNCHANGED <<compVars, otherVars>>

\* loop exit, the I-dot push and the placementsRef assignment
PlaceDot ==
    /\ genPc = "loop"
    /\ ~loopCond(placements, attempts)
    /\ placements' = withDot(placements, loadedData)
    /\ placementsRef' = placements'
    /\ genPc' = "done"
    /\ UNCHANGED <<loadedData, maskData, attempts>>
    /\ UNCHANGED <<compVars, otherVars>>

GenNext ==
    \/ \E nx \in RandX, ny \in RandY, ns \in RandSize : Sample(nx, ny, ns)
    \/ PlaceDot

SpecGen == GenInit /\ [][GenNext]_vars

FairSpecGen == SpecGen /\ WF_vars(GenNext)

-----------------------------------------------------------------------------
(* The MosaicCanvas component *)

\* bounds of the component model
MaxPointer == 2
MaxTime == 13000
FrameMs == 4400

\* Timings (ms) of the reveal
DELAY_BETWEEN_LETTERS == 600
LETTER_ANIM_DURATION == 1500
J_START == 300
I_START == J_START + LETTER_ANIM_DURATION + DELAY_BETWEEN_LETTERS
O_START == I_START + LETTER_ANIM_DURATION + DELAY_BETWEEN_LETTERS
DOT_START == O_START + LETTER_ANIM_DURATION + DELAY_BETWEEN_LETTERS
DOT_DURATION == 1200
SettleHold == 1000
TOTAL_DURATION_noIntro == DOT_START - J_START + DOT_DURATION + SettleHold
TOTAL_DURATION == DOT_START + DOT_DURATION + SettleHold

InitialDelay_short == SettleHold \div 2

\* delays of the auto-popup effect
InitialDelay == 1000
IntervalDelay == 1500
ExpandDelay == 50
CollapseDelay == 1200
RemoveDelay == 600
InteractionQuiet == 2000

\* Date.now() is epoch time, performance.now() is time since page load
EpochOffset == 1000000
DateNow == now + EpochOffset

\* the values of the images prop: each entry has a url that loads or fails
Entry(k, vip, ok) == [img |-> Image(k), isPresident |-> vip, ok |-> ok]
NoImages == <<>>
FailingImages == <<Entry(1, FALSE, FALSE)>>
MixedImages == <<Entry(1, FALSE, TRUE), Entry(2, TRUE, TRUE), Entry(3, FALSE, FALSE)>>
ImageSets == {NoImages, FailingImages, MixedImages}

validImages_unfiltered(imgs) ==
    [k \in 1..Len(imgs) |-> [img |-> imgs[k].img, isPresident |-> imgs[k].isPresident]]

validImages_orFirst(imgs) ==
    LET okOnes == SelectSeq(imgs, LAMBDA e : e.ok)
        kept == IF okOnes = <<>> THEN SubSeq(imgs, 1, 1) ELSE okOnes
    IN  [k \in 1..Len(kept) |-> [img |-> kept[k].img, isPresident |-> kept[k].isPresident]]

\* results.filter(result => result !== null)
validImages(imgs) ==
    LET okOnes == SelectSeq(imgs, LAMBDA e : e.ok)
    IN  [k \in 1..Len(okOnes) |-> [img |-> okOnes[k].img, isPresident |-> okOnes[k].isPresident]]

\* sequences of Math.random() results a pass consumes (repeated cyclically):
\* samples in the J and the i, samples the mask rejects, samples in the i and the o
GlyphStream == <<<<150, 840, 0>>, <<190, 840, 1365>>, <<595, 490, 0>>>>
BlankStream == <<<<850, 840, 0>>>>
EdgeStream == <<<<595, 840, 0>>, <<850, 840, 1365>>>>

\* the sequences drawn by the passes of the component model
CompStreams == {GlyphStream}

RECURSIVE runLoop(_, _, _, _)
runLoop(ps, n, data, stream) ==
    IF loopCond(ps, n)
    THEN LET s == stream[(n % Len(stream)) + 1]
         IN  runLoop(sampleStep(ps, data, s[1], s[2], s[3]), n + 1, data, stream)
    ELSE ps

\* the placements generateMosaic builds: the sampling loop, then the dot
generateLayout(data, stream) == withDot(runLoop(<<>>, 0, data, stream), data)

CompInit ==
    /\ loadedData = <<>>
    /\ maskData = MaskGlyph
    /\ placements = <<>>
    /\ attempts = 0
    /\ genPc = "component"
    /\ OthersIdle
    /\ placementsRef = <<>>
    /\ CompIdle

\* the auto-popup effect body: arm initialTimer and the interval unless it returns early
popupArmed(gen, imgs) == ~(gen \/ Len(imgs) = 0)

\* run of the popup effect after a commit in which one of its dependencies
\* changed: the cleanup clears both timers, the body arms them again
RunPopupEffect(changed, gen, imgs, keepInitial, keepInterval) ==
    IF changed /\ mounted
    THEN /\ initialTimer' = IF popupArmed(gen, imgs) THEN now + InitialDelay ELSE None
         /\ intervalId' = IF popupArmed(gen, imgs) THEN now + IntervalDelay ELSE None
    ELSE /\ initialTimer' = keepInitial
         /\ intervalId' = keepInterval

\* the cleanup of the image-load effect: isMounted = false (and the audio is paused)
loadCleanup(ps) ==
    [p \in DOMAIN ps |-> IF p = effectPass THEN [ps[p] EXCEPT !.isMounted = FALSE] ELSE ps[p]]

\* the images prop is replaced: cleanup of the previous image-load effect, then
\* the effect body, then the popup effect (images is one of its dependencies)
ImagesChange(newImages) ==
    /\ mounted
    /\ changes < MaxChanges
    /\ changes' = changes + 1
    /\ images' = newImages
    /\ IF Len(newImages) = 0
       THEN /\ pass' = loadCleanup(pass)
            /\ effectPass' = 0
            /\ UNCHANGED <<passCount, hoveredImage, placementsRef, popupCountRef, isGenerating>>
       ELSE /\ passCount' = passCount + 1
            /\ effectPass' = passCount + 1
            /\ pass' = [loadCleanup(pass) EXCEPT ![passCount + 1] =
                           [st |-> "loading", imgs |-> newImages, isMounted |-> TRUE,
                            startTime |-> None, frameDue |-> None, placements |-> <<>>,
                            durationOffset |-> <<>>, buffers |-> {}, error |-> FALSE, origin |-> <<>>]]
            /\ hoveredImage' = [kind |-> "none"]
            /\ placementsRef' = <<>>
            /\ popupCountRef' = 0
            /\ isGenerating' = TRUE
    /\ RunPopupEffect(TRUE, isGenerating', newImages, None, None)
    /\ UNCHANGED <<mounted, downloadUrl, activeTile, isExpanded, lastInteractionRef,
                   nestedTimers, pointerEvents, popupPosition, lastDraw, now>>
    /\ UNCHANGED <<genVars, otherVars>>

\* durationOffset: (Math.random() - 0.5) * 400, for Math.random() = n / RandDen
durationNoise(n) == (n * 400) \div RandDen - 200

\* the durationOffset of each of the k entries of animPlacements
animNoise(stream, k) ==
    [i \in 1..k |-> durationNoise(stream[((i - 1) % Len(stream)) + 1][1])]

\* Math.cos and Math.sin of an angle given in quarter turns
cosQ(q) == IF q % 4 = 0 THEN 1 ELSE IF q % 4 = 2 THEN -1 ELSE 0
sinQ(q) == IF q % 4 = 1 THEN 1 ELSE IF q % 4 = 3 THEN -1 ELSE 0

\* the scatter distance 300 + Math.random() * 500 px, for Math.random() = n / RandDen
scatterDist(n) == (300 + (n * 500) \div RandDen) * Sub

\* the drop height of the dot: sy = p.cy - 600
DotDrop == 600 * Sub

\* (sx, sy) of each entry of animPlacements: the dot starts straight above its
\* target, a tile at scatterDist from its target in the direction angle, drawn
\* here from the quarter turns
animOrigins(ps, stream) ==
    [i \in 1..Len(ps) |->
        LET s == stream[((i - 1) % Len(stream)) + 1]
            q == (4 * s[2]) \div RandDen
        IN  IF ps[i].isDot
            THEN [sx |-> ps[i].cx, sy |-> ps[i].cy - DotDrop]
            ELSE [sx |-> ps[i].cx + cosQ(q) * scatterDist(s[3]),
                  sy |-> ps[i].cy + sinQ(q) * scatterDist(s[3])]]

\* if (validImages.length > 0)
hasValidImages(data) == Len(data) > 0

\* Promise.all of pass p resolves: generateMosaic(validImages) when something
\* loaded, else setIsGenerating(false).  Nothing here consults isMounted.  The
\* first frame callback comes gap ms later; area tells whether the canvas's
\* bounding rect has an area ("full") or not ("zero"), or that the canvas
\* yields no 2d context ("noContext").
LoadDone(p, stream, gap, area) ==
    /\ pass[p].st = "loading"
    /\ LET data == validImages(pass[p].imgs)
       IN  IF hasValidImages(data)
           THEN IF ~mounted
                THEN \* const canvas = canvasRef.current; if (!canvas) return
                     /\ pass' = [pass EXCEPT ![p].st = "noCanvas"]
                     /\ UNCHANGED <<placementsRef, isGenerating, initialTimer, intervalId,
                                    lastDraw>>
                ELSE IF area = "noContext"
                THEN \* const ctx = canvas.getContext('2d'); if (!ctx) return
                     /\ pass' = [pass EXCEPT ![p].st = "noContext"]
                     /\ UNCHANGED <<placementsRef, isGenerating, initialTimer, intervalId,
                                    lastDraw>>
                ELSE IF area = "zero"
                THEN \* canvas.width = 0 clears the canvas; the mask and scatter
                     \* canvases and the thumbnails are created with size 0, and
                     \* bcx.drawImage(c, 0, 0) of a zero-size canvas throws into
                     \* the catch of loadImages
                     /\ pass' = [pass EXCEPT ![p].st = "zeroArea",
                                             ![p].buffers = PassBuffers,
                                             ![p].error = TRUE]
                     /\ lastDraw' = NoDraw
                     /\ isGenerating' = FALSE
                     /\ RunPopupEffect(isGenerating, FALSE, images, initialTimer, intervalId)
                     /\ UNCHANGED placementsRef
                ELSE /\ placementsRef' = generateLayout(data, stream)
                     /\ pass' = [pass EXCEPT ![p].st = "animating",
                                             ![p].placements = generateLayout(data, stream),
                                             ![p].durationOffset =
                                                 animNoise(stream, Len(generateLayout(data, stream))),
                                             ![p].startTime = now,
                                             ![p].frameDue = now + gap,
                                             ![p].buffers = PassBuffers,
                                             ![p].origin =
                                                 animOrigins(generateLayout(data, stream), stream)]
                     \* canvas.width = width and ctx.clearRect blank the canvas
                     /\ lastDraw' = NoDraw
                     /\ UNCHANGED <<isGenerating, initialTimer, intervalId>>
           ELSE /\ pass' = [pass EXCEPT ![p].st = "aborted"]
                /\ isGenerating' = IF mounted THEN FALSE ELSE isGenerating
                /\ RunPopupEffect(isGenerating, FALSE, images, initialTimer, intervalId)
                /\ UNCHANGED <<placementsRef, lastDraw>>
    /\ UNCHANGED <<mounted, images, changes, passCount, effectPass, downloadUrl,
                   hoveredImage, activeTile, isExpanded, lastInteractionRef, popupCountRef,
                   nestedTimers, pointerEvents, popupPosition, now>>
    /\ UNCHANGED <<genVars, otherVars>>

\* startT of a placement's group
groupStart(group) ==
    IF group = "J" THEN J_START
    ELSE IF group = "I" THEN I_START
    ELSE IF group = "O" THEN O_START
    ELSE IF group = "DOT" THEN DOT_START
    ELSE 0

tileDuration_slow(tile, offset) ==
    IF tile.group = "DOT" THEN DOT_DURATION ELSE 2 * LETTER_ANIM_DURATION + offset

\* dur of a placement
tileDuration(tile, offset) ==
    IF tile.group = "DOT" THEN DOT_DURATION ELSE LETTER_ANIM_DURATION + offset

tileDrawn_noStartCheck(tile, offset, elapsed) ==
    LET t == elapsed - groupStart(tile.group)
        dur == tileDuration(tile, offset)
    IN  IF tile.isDot THEN TRUE
        ELSE IF t >= dur THEN TRUE
        ELSE 150 * t > dur

\* animate draws this placement in the frame at elapsed: not before its group
\* starts; the dot from then on, a tile once opacity = min(progress * 1.5, 1)
\* exceeds 0.01
tileDrawn(tile, offset, elapsed) ==
    LET t == elapsed - groupStart(tile.group)
        dur == tileDuration(tile, offset)
    IN  IF t < 0 THEN FALSE
        ELSE IF tile.isDot THEN TRUE
        ELSE IF t >= dur THEN TRUE
        ELSE 150 * t > dur

frameTiles(ps, offsets, elapsed) ==
    {i \in 1..Len(ps) : tileDrawn(ps[i], offsets[i], elapsed)}

\* progress = min(t / dur, 1) of a started placement, in thousandths
tileProgress(tile, offset, elapsed) ==
    LET t == elapsed - groupStart(tile.group)
        dur == tileDuration(tile, offset)
    IN  IF t >= dur THEN Thousand ELSE (Thousand * t) \div dur

\* easeOutBack: 1 + c3 (x - 1)^3 + c1 (x - 1)^2 with c1 = 1.70158, c3 = c1 + 1;
\* argument and result in thousandths
easeOutBack(x) ==
    LET u == x - Thousand
        u2 == (u * u) \div Thousand
        u3 == (u2 * u) \div Thousand
    IN  Thousand + (270158 * u3 + 170158 * u2) \div 100000

\* easeOutElastic at x = k / 12: 2^(-10 x) sin((10 x - 0.75) 2 pi / 3) + 1, in
\* thousandths; 0 at x = 0 and 1 at x = 1
ElasticKnots == <<0, 1097, 1296, 912, 924, 1043, 1016, 984, 998, 1006, 999, 998, 1000>>

\* easeOutElastic, read off the knots with linear interpolation between them
easeOutElastic(x) ==
    LET k == (12 * x) \div Thousand
        lo == ElasticKnots[k + 1]
        hi == ElasticKnots[IF k < 12 THEN k + 2 ELSE k + 1]
    IN  lo + ((hi - lo) * (12 * x - k * Thousand)) \div Thousand

\* the variable eased of the per-placement callback
eased(tile, progress) ==
    IF tile.group = "DOT" THEN easeOutElastic(progress) ELSE easeOutBack(progress)

\* start + (end - start) * e for e in thousandths
lerp(from, to, e) == from + ((to - from) * e) \div Thousand

\* where animate draws a started placement: a tile at (x, y), interpolated
\* with eased; the dot at (p.cx, dotY) with dotY interpolated with
\* dropEased = easeOutBack(min(t / DOT_DURATION, 1))
drawnAt(tile, origin, offset, elapsed) ==
    LET progress == tileProgress(tile, offset, elapsed)
        dropProgress == tileProgress(tile, 0, elapsed)
    IN  IF tile.isDot
        THEN [x |-> tile.cx, y |-> lerp(origin.sy, tile.cy, easeOutBack(dropProgress))]
        ELSE [x |-> lerp(origin.sx, tile.cx, eased(tile, progress)),
              y |-> lerp(origin.sy, tile.cy, eased(tile, progress))]

keepsAnimating_inclusive(elapsed) == elapsed <= TOTAL_DURATION

\* if (elapsed < TOTAL_DURATION) requestAnimationFrame(animate)
keepsAnimating(elapsed) == elapsed < TOTAL_DURATION

\* the animate callback of pass p runs for the frame at time now; the next frame
\* comes gap ms later; pmCtx tells whether the offscreen canvas of the settle
\* branch yields a 2d context
animate(p, pmCtx, gap) ==
    /\ pass[p].st = "animating"
    /\ pass[p].frameDue = now
    /\ LET elapsed == now - pass[p].startTime
           frame == [pass |-> p, kind |-> "frame",
                     tiles |-> frameTiles(pass[p].placements, pass[p].durationOffset, elapsed)]
           composite == [pass |-> p, kind |-> "settle",
                         tiles |-> 1..Len(pass[p].placements)]
       IN  IF keepsAnimating(elapsed)
           THEN /\ lastDraw' = frame
                /\ pass' = [pass EXCEPT ![p].frameDue = now + gap]
                /\ UNCHANGED <<downloadUrl, isGenerating, initialTimer, intervalId>>
           ELSE /\ lastDraw' = IF pmCtx THEN composite ELSE frame
                /\ pass' = [pass EXCEPT ![p].st = "settled", ![p].frameDue = None]
                /\ downloadUrl' = IF mounted THEN lastDraw' ELSE downloadUrl
                /\ isGenerating' = IF mounted THEN FALSE ELSE isGenerating
                /\ RunPopupEffect(isGenerating, FALSE, images, initialTimer, intervalId)
    /\ UNCHANGED <<mounted, images, changes, passCount, effectPass, placementsRef,
                   hoveredImage, activeTile, isExpanded, lastInteractionRef, popupCountRef,
                   nestedTimers, pointerEvents, popupPosition, now>>
    /\ UNCHANGED <<genVars, otherVars>>

DotIndexes(ps) == {i \in 1..Len(ps) : ps[i].isDot}

\* placements.find(x => x.isDot): index of the first dot, 0 when there is none
findDot(ps) == IF DotIndexes(ps) = {} THEN 0
               ELSE CHOOSE i \in DotIndexes(ps) : \A j \in DotIndexes(ps) : i <= j

popupProceeds_noDebounce ==
    /\ ~(activeTile # NoTile /\ isExpanded)
    /\ Len(placementsRef) # 0

popupProceeds_noExpandGuard ==
    /\ ~(DateNow - lastInteractionRef < InteractionQuiet)
    /\ Len(placementsRef) # 0

\* triggerPopup passes its early returns
popupProceeds ==
    /\ ~(DateNow - lastInteractionRef < InteractionQuiet)
    /\ ~(activeTile # NoTile /\ isExpanded)
    /\ Len(placementsRef) # 0

popupPick_alwaysRandom(randomIndex) == randomIndex

\* the placement triggerPopup picks, randomIndex being the Math.random() choice
popupPick(randomIndex) ==
    IF popupCountRef = 0 /\ findDot(placementsRef) # 0 THEN findDot(placementsRef)
    ELSE randomIndex

\* triggerPopup; keepInitial and keepInterval are the two timers of the popup
\* effect as they stand if the effect does not run again
triggerPopup(randomIndex, keepInitial, keepInterval) ==
    IF popupProceeds
    THEN /\ randomIndex \in 1..Len(placementsRef)
         /\ popupCountRef' = popupCountRef + 1
         /\ activeTile' = [img |-> placementsRef[popupPick(randomIndex)].img,
                           index |-> popupPick(randomIndex),
                           id |-> <<changes, popupCountRef + 1>>]
         /\ nestedTimers' = nestedTimers \cup
                {[kind |-> "expand", due |-> now + ExpandDelay, owner |-> changes,
                  spot |-> <<changes, popupCountRef + 1>>],
                 [kind |-> "collapse", due |-> now + CollapseDelay, owner |-> changes,
                  spot |-> <<changes, popupCountRef + 1>>]}
         /\ RunPopupEffect(TRUE, isGenerating, images, keepInitial, keepInterval)
    ELSE /\ randomIndex = 1
         /\ initialTimer' = keepInitial
         /\ intervalId' = keepInterval
         /\ UNCHANGED <<popupCountRef, activeTile, nestedTimers>>

\* setTimeout(triggerPopup, 1000) fires
InitialTimerFire(randomIndex) ==
    /\ initialTimer = now
    /\ triggerPopup(randomIndex, None, intervalId)
    /\ UNCHANGED <<mounted, images, changes, passCount, effectPass, pass, isGenerating,
                   downloadUrl, hoveredImage, isExpanded, lastInteractionRef,
                   pointerEvents, popupPosition, lastDraw, now, placementsRef>>
    /\ UNCHANGED <<genVars, otherVars>>

\* setInterval(triggerPopup, 1500) fires
IntervalFire(randomIndex) ==
    /\ intervalId = now
    /\ triggerPopup(randomIndex, initialTimer, now + IntervalDelay)
    /\ UNCHANGED <<mounted, images, changes, passCount, effectPass, pass, isGenerating,
                   downloadUrl, hoveredImage, isExpanded, lastInteractionRef,
                   pointerEvents, popupPosition, lastDraw, now, placementsRef>>
    /\ UNCHANGED <<genVars, otherVars>>

\* the 50 ms timeout of a popup fires: setIsExpanded(true)
ExpandFire(t) ==
    /\ t \in nestedTimers /\ t.kind = "expand" /\ t.due = now
    /\ nestedTimers' = nestedTimers \ {t}
    /\ isExpanded' = IF mounted THEN TRUE ELSE isExpanded
    /\ RunPopupEffect(~isExpanded, isGenerating, images, initialTimer, intervalId)
    /\ UNCHANGED <<mounted, images, changes, passCount, effectPass, pass, isGenerating,
                   downloadUrl, hoveredImage, activeTile, lastInteractionRef, popupCountRef,
                   pointerEvents, popupPosition, lastDraw, now, placementsRef>>
    /\ UNCHANGED <<genVars, otherVars>>

\* the 1200 ms timeout of a popup fires: setIsExpanded(false), then a 600 ms timeout
CollapseFire(t) ==
    /\ t \in nestedTimers /\ t.kind = "collapse" /\ t.due = now
    /\ nestedTimers' = (nestedTimers \ {t}) \cup
                          {[kind |-> "remove", due |-> now + RemoveDelay, owner |-> t.owner,
                            spot |-> t.spot]}
    /\ isExpanded' = IF mounted THEN FALSE ELSE isExpanded
    /\ RunPopupEffect(isExpanded, isGenerating, images, initialTimer, intervalId)
    /\ UNCHANGED <<mounted, images, changes, passCount, effectPass, pass, isGenerating,
                   downloadUrl, hoveredImage, activeTile, lastInteractionRef, popupCountRef,
                   pointerEvents, popupPosition, lastDraw, now, placementsRef>>
    /\ UNCHANGED <<genVars, otherVars>>

\* the inner 600 ms timeout fires: setActiveTile(null)
RemoveFire(t) ==
    /\ t \in nestedTimers /\ t.kind = "remove" /\ t.due = now
    /\ nestedTimers' = nestedTimers \ {t}
    /\ activeTile' = IF mounted THEN NoTile ELSE activeTile
    /\ RunPopupEffect(activeTile # NoTile, isGenerating, images, initialTimer, intervalId)
    /\ UNCHANGED <<mounted, images, changes, passCount, effectPass, pass, isGenerating,
                   downloadUrl, hoveredImage, isExpanded, lastInteractionRef, popupCountRef,
                   pointerEvents, popupPosition, lastDraw, now, placementsRef>>
    /\ UNCHANGED <<genVars, otherVars>>

hitsPlacement_unrotated(p, mouseX, mouseY) ==
    LET dx == mouseX - p.cx
        dy == mouseY - p.cy
    IN  IF p.isDot
        THEN 4 * (dx * dx + dy * dy) <= p.w * p.w
        ELSE /\ 2 * dx >= -p.w /\ 2 * dx <= p.w
             /\ 2 * dy >= -p.h /\ 2 * dy <= p.h

\* the containment test of handleMouseMove for one placement
hitsPlacement(p, mouseX, mouseY) ==
    LET dx == mouseX - p.cx
        dy == mouseY - p.cy
    IN  IF p.isDot
        THEN 4 * (dx * dx + dy * dy) <= p.w * p.w
        ELSE LET cos == cosQ(4 - (p.angle % 4))
                 sin == sinQ(4 - (p.angle % 4))
                 localX == dx * cos - dy * sin
                 localY == dx * sin + dy * cos
             IN  /\ 2 * localX >= -p.w /\ 2 * localX <= p.w
                 /\ 2 * localY >= -p.h /\ 2 * localY <= p.h

found_forward(ps, mouseX, mouseY) ==
    LET hits == {i \in 1..Len(ps) : hitsPlacement(ps[i], mouseX, mouseY)}
    IN  IF hits = {} THEN 0 ELSE CHOOSE i \in hits : \A j \in hits : i <= j

\* the reverse scan of handleMouseMove: index of the first match from the end,
\* 0 when no placement is under the pointer
found(ps, mouseX, mouseY) ==
    LET hits == {i \in 1..Len(ps) : hitsPlacement(ps[i], mouseX, mouseY)}
    IN  IF hits = {} THEN 0 ELSE CHOOSE i \in hits : \A j \in hits : j <= i

\* pointer positions, in canvas coordinates: the dot, a tile of the J, empty canvas
PointerSpots == {<<iCenterX, dotY>>, <<SampleX(150), SampleY(840)>>, <<0, 0>>}

cancelsSpotlight_never == FALSE

\* if (activeTile && activeTile.id !== 'hover'): an auto spotlight's id is a number
cancelsSpotlight == activeTile # NoTile

handleMouseMove(mouseX, mouseY) ==
    /\ mounted
    /\ pointerEvents < MaxPointer
    /\ pointerEvents' = pointerEvents + 1
    /\ lastInteractionRef' = DateNow
    /\ LET f == found(placementsRef, mouseX, mouseY)
       IN  IF f # 0
           THEN /\ hoveredImage' = placementsRef[f].img
                /\ popupPosition' = [x |-> mouseX, y |-> mouseY]
                /\ isExpanded' = IF cancelsSpotlight THEN FALSE ELSE isExpanded
                /\ activeTile' = IF cancelsSpotlight THEN NoTile ELSE activeTile
                /\ RunPopupEffect(cancelsSpotlight, isGenerating, images,
                                  initialTimer, intervalId)
           ELSE /\ hoveredImage' = [kind |-> "none"]
                /\ UNCHANGED <<isExpanded, activeTile, initialTimer, intervalId, popupPosition>>
    /\ UNCHANGED <<mounted, images, changes, passCount, effectPass, pass, isGenerating,
                   downloadUrl, popupCountRef, nestedTimers, lastDraw, now, placementsRef>>
    /\ UNCHANGED <<genVars, otherVars>>

handleMouseLeave ==
    /\ mounted
    /\ pointerEvents < MaxPointer
    /\ pointerEvents' = pointerEvents + 1
    /\ lastInteractionRef' = DateNow
    /\ hoveredImage' = [kind |-> "none"]
    /\ UNCHANGED <<mounted, images, changes, passCount, effectPass, pass, isGenerating,
                   downloadUrl, activeTile, isExpanded, popupCountRef, initialTimer,
                   intervalId, nestedTimers, lastDraw, now, placementsRef, popupPosition>>
    /\ UNCHANGED <<genVars, otherVars>>

\* the component unmounts: both effect cleanups run, canvasRef.current becomes null
Unmount ==
    /\ mounted
    /\ mounted' = FALSE
    /\ pass' = loadCleanup(pass)
    /\ effectPass' = 0
    /\ initialTimer' = None
    /\ intervalId' = None
    /\ UNCHANGED <<images, changes, passCount, isGenerating, downloadUrl, hoveredImage,
                   activeTile, isExpanded, lastInteractionRef, popupCountRef, nestedTimers,
                   pointerEvents, popupPosition, lastDraw, now, placementsRef>>
    /\ UNCHANGED <<genVars, otherVars>>

\* due times of everything the browser still has scheduled
Pending ==
    {pass[p].frameDue : p \in {q \in DOMAIN pass : pass[q].st = "animating"}}
        \cup ({initialTimer, intervalId} \ {None})
        \cup {t.due : t \in nestedTimers}

\* time passes until the next scheduled callback is due
Tick ==
    /\ Pending # {}
    /\ \A d \in Pending : d > now
    /\ \E d \in Pending :
          /\ \A e \in Pending : d <= e
          /\ d <= MaxTime
          /\ now' = d
    /\ UNCHANGED <<mounted, images, changes, passCount, effectPass, pass, isGenerating,
                   downloadUrl, hoveredImage, activeTile, isExpanded, lastInteractionRef,
                   popupCountRef, initialTimer, intervalId, nestedTimers, pointerEvents, popupPosition,
                   lastDraw, placementsRef>>
    /\ UNCHANGED <<genVars, otherVars>>

CompNext ==
    \/ \E newImages \in ImageSets : ImagesChange(newImages)
    \/ \E p \in 1..MaxChanges, stream \in CompStreams : LoadDone(p, stream, FrameMs, "full")
    \/ \E p \in 1..MaxChanges : animate(p, TRUE, FrameMs)
    \/ \E i \in 1..(targetCount + 1) : InitialTimerFire(i)
    \/ \E i \in 1..(targetCount + 1) : IntervalFire(i)
    \/ \E t \in nestedTimers : ExpandFire(t)
    \/ \E t \in nestedTimers : CollapseFire(t)
    \/ \E t \in nestedTimers : RemoveFire(t)
    \/ Unmount
    \/ Tick

SpecComp == CompInit /\ [][CompNext]_vars

\* the component with a pointer over the canvas
PointerNext ==
    \/ \E s \in PointerSpots : handleMouseMove(s[1], s[2])
    \/ handleMouseLeave

SpecPointer == CompInit /\ [][CompNext \/ PointerNext]_vars

-----------------------------------------------------------------------------
(* The settled component: auto-popup timers and pointer handlers *)

\* time of the frame in which a pass started at 0 settles, frames FrameMs apart
SettleTime == ((TOTAL_DURATION + FrameMs - 1) \div FrameMs) * FrameMs

SettledPass(ps) ==
    [st |-> "settled", imgs |-> MixedImages, isMounted |-> TRUE, startTime |-> 0,
     frameDue |-> None, placements |-> ps, durationOffset |-> <<>>,
     buffers |-> PassBuffers, error |-> FALSE, origin |-> animOrigins(ps, GlyphStream)]

\* the component right after its first pass has settled and the popup effect
\* has armed its timers
SpotInit ==
    /\ loadedData = <<>>
    /\ maskData = MaskGlyph
    /\ placements = <<>>
    /\ attempts = 0
    /\ genPc = "component"
    /\ OthersIdle
    /\ mounted = TRUE
    /\ images = MixedImages
    /\ changes = 1
    /\ passCount = 1
    /\ effectPass = 1
    /\ \E stream \in CompStreams :
          /\ placementsRef = generateLayout(validImages(MixedImages), stream)
          /\ pass = [p \in 1..MaxChanges |->
                        IF p = 1 THEN [SettledPass(placementsRef) EXCEPT !.durationOffset =
                                           animNoise(stream, Len(placementsRef))]
                        ELSE IdlePass]
    /\ isGenerating = FALSE
    /\ lastDraw = [pass |-> 1, kind |-> "settle", tiles |-> 1..Len(placementsRef)]
    /\ downloadUrl = lastDraw
    /\ hoveredImage = [kind |-> "none"]
    /\ activeTile = NoTile
    /\ isExpanded = FALSE
    /\ lastInteractionRef = 0
    /\ popupCountRef = 0
    /\ initialTimer = SettleTime + InitialDelay
    /\ intervalId = SettleTime + IntervalDelay
    /\ nestedTimers = {}
    /\ pointerEvents = 0
    /\ popupPosition = [x |-> 0, y |-> 0]
    /\ now = SettleTime

SpotNext ==
    \/ \E i \in 1..(targetCount + 1) : InitialTimerFire(i)
    \/ \E i \in 1..(targetCount + 1) : IntervalFire(i)
    \/ \E t \in nestedTimers : ExpandFire(t)
    \/ \E t \in nestedTimers : CollapseFire(t)
    \/ \E t \in nestedTimers : RemoveFire(t)
    \/ \E s \in PointerSpots : handleMouseMove(s[1], s[2])
    \/ handleMouseLeave
    \/ Tick

SpecSpot == SpotInit /\ [][SpotNext]_vars

----------------------------------------------------------------------------
(* Properties of a generation pass (SpecGen) *)

Tiles(ps) == {i \in 1..Len(ps) : ~ps[i].isDot}
Dots(ps) == {i \in 1..Len(ps) : ps[i].isDot}
VipIndexes == {k \in 1..Len(loadedData) : loadedData[k].isPresident}
CommonIndexes == {k \in 1..Len(loadedData) : ~loadedData[k].isPresident}
VipImages == {loadedData[k].img : k \in VipIndexes}
MaxOf(S) == CHOOSE m \in S : \A x \in S : x <= m
DistSq(p, q) == (p.cx - q.cx) * (p.cx - q.cx) + (p.cy - q.cy) * (p.cy - q.cy)

\* C1: any two distinct non-dot placements have their centers at least
\* 0.7 * (p.w/2 + q.w/2) apart, in either order of acceptance.
C1_PackingDistance ==
    \A i \in Tiles(placements), j \in Tiles(placements) :
        i # j => 400 * DistSq(placements[i], placements[j])
                   >= 49 * (placements[i].w + placements[j].w) * (placements[i].w + placements[j].w)

Overlapping(p, q) == 4 * DistSq(p, q) < (p.w + q.w) * (p.w + q.w)

\* a finished pass holding a tile and a larger one accepted after it, closer to each
\* other than the sum of their radii
C1_Witness ==
    /\ genPc = "done"
    /\ \E i \in Tiles(placementsRef), j \in Tiles(placementsRef) :
          i < j /\ placementsRef[i].w < placementsRef[j].w
                /\ Overlapping(placementsRef[i], placementsRef[j])

\* C2: the center of every non-dot placement lies on a mask pixel of alpha > 128.
C2_InsideMask ==
    \A i \in Tiles(placements) :
        maskData[(placements[i].cy \div Sub) * width + (placements[i].cx \div Sub)] > 128

\* a finished pass that rejected a sample and accepted one on a pixel of alpha 129
C2_Witness ==
    /\ genPc = "done"
    /\ attempts > Cardinality(Tiles(placementsRef))
    /\ \E i \in Tiles(placementsRef) :
          maskData[(placementsRef[i].cy \div Sub) * width + (placementsRef[i].cx \div Sub)] = 129

\* C3: a pass that reaches layout ends with exactly one dot placement, the last
\* element, at the anchor computed from the glyph metrics; no dot exists while
\* sampling runs, and the dot is pushed whatever the mask and the tiles around it.
C3_ExactlyOneDot ==
    /\ genPc = "loop" => Dots(placements) = {} /\ placementsRef = <<>>
    /\ genPc = "done" =>
          /\ placementsRef = placements
          /\ Dots(placementsRef) = {Len(placementsRef)}
          /\ placementsRef[Len(placementsRef)].cx = iX + metrics.i \div 2
          /\ placementsRef[Len(placementsRef)].cy = centerY - (fontSize * 38) \div 100
          /\ placementsRef[Len(placementsRef)].w = 2 * (fontSize \div 10)

\* a finished pass whose dot sits on a pixel the mask test would reject and within
\* collision distance of an accepted tile
C3_Witness ==
    /\ genPc = "done"
    /\ LET d == placementsRef[Len(placementsRef)]
       IN  /\ d.isDot
           /\ maskData[(d.cy \div Sub) * width + (d.cx \div Sub)] <= 128
           /\ \E i \in Tiles(placementsRef) :
                 400 * DistSq(d, placementsRef[i])
                   < 49 * (d.w + placementsRef[i].w) * (d.w + placementsRef[i].w)

\* C4: the dot's image is the last president image in supplied order when one
\* exists, and otherwise the first image of the pool.
C4_DotImage ==
    genPc = "done" =>
        \A i \in Dots(placementsRef) :
            placementsRef[i].img =
                IF VipIndexes # {} THEN loadedData[MaxOf(VipIndexes)].img
                ELSE loadedImages(loadedData)[1]

\* a finished pass over a list holding two president images and a later common one
C4_Witness ==
    /\ genPc = "done"
    /\ Cardinality(VipIndexes) >= 2
    /\ placementsRef[Len(placementsRef)].img = loadedData[MaxOf(VipIndexes)].img
    /\ loadedData[MaxOf(VipIndexes)].img # loadedData[1].img

C6_PoolSelection ==
    LET pool == poolData(loadedData)
    IN  /\ CommonIndexes # {} =>
              /\ Len(pool) = Cardinality(CommonIndexes)
              /\ \A i \in 1..Len(pool) : pool[i].img.id \in CommonIndexes
                                            /\ pool[i] = loadedData[pool[i].img.id]
              /\ \A i \in 1..Len(pool), j \in 1..Len(pool) :
                    i < j => pool[i].img.id < pool[j].img.id
        /\ CommonIndexes = {} => pool = loadedData
        /\ \A i \in Tiles(placements) :
              \E k \in (IF CommonIndexes # {} THEN CommonIndexes ELSE 1..Len(loadedData)) :
                  placements[i].img = loadedData[k].img

\* a finished pass over president images only, whose tiles use them
C6_Witness ==
    /\ genPc = "done"
    /\ CommonIndexes = {}
    /\ Len(loadedData) >= 2
    /\ \E i \in Tiles(placementsRef) : placementsRef[i].img \in VipImages

\* C7: the sampling loop ends; attempts never exceed maxAttempts, accepted tiles
\* never exceed targetCount, an iteration runs only below both bounds, and the loop
\* is left with one of the bounds reached.
C7_LoopTerminates ==
    /\ <>(genPc = "done")
    /\ [](attempts <= maxAttempts /\ Cardinality(Tiles(placements)) <= targetCount)
    /\ [](genPc = "done" =>
            (attempts = maxAttempts \/ Cardinality(Tiles(placements)) = targetCount))
    /\ [][attempts' # attempts =>
            (attempts < maxAttempts /\ Cardinality(Tiles(placements)) < targetCount)]_vars

\* a pass over a mask without a valid pixel, ended by the attempt ceiling
C7_Witness ==
    /\ genPc = "done"
    /\ \A i \in DOMAIN maskData : maskData[i] <= 128
    /\ attempts = maxAttempts
    /\ Tiles(placementsRef) = {}

-----------------------------------------------------------------------------
(* Properties of the component (SpecComp) *)

Animating == {p \in DOMAIN pass : pass[p].st = "animating"}

\* pass p's animate callback runs in this step
FrameRuns(p) == pass[p].st = "animating" /\ pass'[p].frameDue # pass[p].frameDue

\* pass p calls requestAnimationFrame for the first time in this step
LoopStarts(p) == pass[p].st = "loading" /\ pass'[p].st = "animating"

\* nested timer t fires in this step
TimerFires(t) == t \in nestedTimers /\ t \notin nestedTimers'

\* C8: when the image set changes while a pass is loading or animating, the
\* previous pass's frame loop is cancelled before the new pass starts its own:
\* at no time do two different passes both have a live frame loop drawing to
\* the canvas.
C8_SingleFlight ==
    \A p \in Animating, q \in Animating : p = q

\* C9: once the effect cleanup has cancelled a pass (its isMounted is false),
\* also while its images are still loading, that pass starts no frame loop and
\* none of its frame callbacks is invoked (so nothing is drawn) afterwards.
C9_NoFrameAfterCancel ==
    [][\A p \in DOMAIN pass : (FrameRuns(p) \/ LoopStarts(p)) => pass[p].isMounted]_vars

\* C10: the expand, collapse and remove timers spawned by a popup are cancelled
\* together with the interval when the image set changes or the component is
\* torn down: no such timer set under an earlier image set (or before the
\* teardown) fires and changes activeTile or isExpanded.
C10_NestedTimersCancelled ==
    [][\A t \in nestedTimers :
          (TimerFires(t) /\ (t.owner # changes \/ ~mounted))
              => (activeTile' = activeTile /\ isExpanded' = isExpanded)]_vars

\* C11: a generation pass is atomic.  With an empty images prop there are no
\* placements and no running timeline; otherwise every running timeline
\* animates exactly the placement set that is hit-tested (placementsRef), so
\* the placement set never belongs to one pass and a running timeline to
\* another.
C11_AtomicPass ==
    /\ Len(images) = 0 => (placementsRef = <<>> /\ Animating = {})
    /\ \A p \in Animating : placementsRef = pass[p].placements

\* triggerPopup is called in this step (by initialTimer or by the interval)
TriggerFires ==
    /\ initialTimer = now \/ intervalId = now
    /\ pass' = pass /\ changes' = changes /\ mounted' = mounted
    /\ pointerEvents' = pointerEvents
    /\ nestedTimers \subseteq nestedTimers'

SpotlightExpanded == activeTile # NoTile /\ isExpanded

\* C12: at most one spotlight is active at a time: a new spotlight starts
\* (the popup counter advances, activeTile is set) only when none is expanded,
\* and an auto-trigger that fires while a spotlight is expanded leaves
\* activeTile, isExpanded, the popup counter and the spotlight's timers as
\* they are.
C12_OneSpotlight ==
    [][/\ popupCountRef' = popupCountRef + 1 => ~SpotlightExpanded
       /\ (TriggerFires /\ SpotlightExpanded)
             => (/\ activeTile' = activeTile /\ isExpanded' = isExpanded
                 /\ popupCountRef' = popupCountRef /\ nestedTimers' = nestedTimers)]_vars

\* the initial timer has fired while a spotlight was expanded, and was suppressed
C12_Witness ==
    /\ SpotlightExpanded
    /\ initialTimer = None /\ intervalId # None
    /\ popupCountRef = 1

-----------------------------------------------------------------------------
(* Properties of the settled component (SpecSpot) *)

InsideQuietWindow == DateNow - lastInteractionRef < InteractionQuiet

\* C13: an auto-spotlight trigger that fires less than 2000 ms after the last
\* pointer move or pointer leave starts no spotlight: activeTile, isExpanded
\* and the popup counter stay as they are, and no expand or collapse timer is
\* set.
C13_DebouncedTrigger ==
    [][(TriggerFires /\ InsideQuietWindow)
          => (/\ activeTile' = activeTile /\ isExpanded' = isExpanded
              /\ popupCountRef' = popupCountRef /\ nestedTimers' = nestedTimers)]_vars

\* the initial timer has just fired, less than 2000 ms after a pointer event
C13_Witness ==
    /\ initialTimer = None
    /\ intervalId = now + (IntervalDelay - InitialDelay)
    /\ lastInteractionRef # 0 /\ lastInteractionRef < DateNow
    /\ InsideQuietWindow
    /\ Len(placementsRef) # 0 /\ ~SpotlightExpanded

-----------------------------------------------------------------------------
(* More properties of the component (SpecComp) *)

\* a spotlight starts in this step
SpotlightStarts == popupCountRef' = popupCountRef + 1

\* C14: the popup counter restarts at 0 with every generation pass and only a
\* trigger that starts a spotlight advances it, so suppressed triggers do not
\* count; the first spotlight of a pass shows the dot placement, every later
\* one a placement at any index of the whole placement list.
C14_FirstIsDot ==
    [][/\ passCount' # passCount => popupCountRef' = 0
       /\ TriggerFires => (popupCountRef' = popupCountRef \/ SpotlightStarts)
       /\ (TriggerFires /\ popupCountRef' = popupCountRef)
             => (activeTile' = activeTile /\ nestedTimers' = nestedTimers)
       /\ SpotlightStarts
             => (/\ activeTile'.index \in 1..Len(placementsRef)
                 /\ activeTile'.img = placementsRef[activeTile'.index].img
                 /\ popupCountRef = 0 => placementsRef[activeTile'.index].isDot)]_vars

\* after the dot, the second spotlight of the pass shows an ordinary tile
C14_Witness ==
    /\ popupCountRef = 2
    /\ activeTile # NoTile
    /\ ~placementsRef[activeTile.index].isDot

-----------------------------------------------------------------------------
(* More properties of the settled component (SpecSpot) *)

\* handleMouseMove runs in this step and finds a placement under the pointer
HitMove == pointerEvents' = pointerEvents + 1 /\ hoveredImage' # [kind |-> "none"]

handTile(k, cx, cy, w, h, q, dot) ==
    [cx |-> cx, cy |-> cy, w |-> w, h |-> h, angle |-> q,
     img |-> Image(k), thumb |-> Image(k), blurredThumb |-> [kind |-> "none"],
     isDot |-> dot, group |-> IF dot THEN "DOT" ELSE groupOf(cx)]

WideTile == handTile(1, 300, 300, 200, 100, 0, FALSE)
TurnedTile == handTile(2, 350, 300, 200, 100, 1, FALSE)
FlippedTile == handTile(3, 350, 300, 200, 100, 3, FALSE)
HandDot == handTile(4, 300, 300, 100, 100, 0, TRUE)

\* the lists the hit test is run on: overlapping tiles with the dot last, the
\* same tiles without a dot, a single turned tile, and a generated layout
HitLists ==
    {<<WideTile, TurnedTile, HandDot>>,
     <<TurnedTile, WideTile>>,
     <<FlippedTile>>,
     generateLayout(validImages(MixedImages), GlyphStream)}

GridStep == 50
GridFrom == 200
GridCells == 5
GridCoords == {GridFrom + GridStep * i : i \in 0..GridCells}
HitGrid == (GridCoords \X GridCoords) \cup PointerSpots

\* a settled component whose placementsRef holds one of the lists
HitInit ==
    /\ loadedData = <<>>
    /\ maskData = MaskGlyph
    /\ placements = <<>>
    /\ attempts = 0
    /\ genPc = "component"
    /\ OthersIdle
    /\ mounted = TRUE
    /\ images = MixedImages
    /\ changes = 1
    /\ passCount = 1
    /\ effectPass = 1
    /\ placementsRef \in HitLists
    /\ pass = [p \in 1..MaxChanges |->
                  IF p = 1 THEN [SettledPass(placementsRef) EXCEPT !.durationOffset =
                                     [i \in 1..Len(placementsRef) |-> 0]]
                  ELSE IdlePass]
    /\ isGenerating = FALSE
    /\ lastDraw = [pass |-> 1, kind |-> "settle", tiles |-> 1..Len(placementsRef)]
    /\ downloadUrl = lastDraw
    /\ hoveredImage = [kind |-> "none"]
    /\ activeTile = NoTile
    /\ isExpanded = FALSE
    /\ lastInteractionRef = 0
    /\ popupCountRef = 0
    /\ initialTimer = SettleTime + InitialDelay
    /\ intervalId = SettleTime + IntervalDelay
    /\ nestedTimers = {}
    /\ pointerEvents = 0
    /\ popupPosition = [x |-> 0, y |-> 0]
    /\ now = SettleTime

HitNext == \E s \in HitGrid : handleMouseMove(s[1], s[2])

SpecHit == HitInit /\ [][HitNext]_vars

\* the shape a placement occupies, stated geometrically: a disc of diameter w
\* for the dot, otherwise the w-by-h rectangle about the centre, whose extents
\* swap under an odd number of quarter turns
ShapeContains(p, x, y) ==
    LET ax == IF x >= p.cx THEN x - p.cx ELSE p.cx - x
        ay == IF y >= p.cy THEN y - p.cy ELSE p.cy - y
    IN  IF p.isDot
        THEN 4 * (ax * ax + ay * ay) <= p.w * p.w
        ELSE IF p.angle % 2 = 0
             THEN 2 * ax <= p.w /\ 2 * ay <= p.h
             ELSE 2 * ax <= p.h /\ 2 * ay <= p.w

Containing(ps, x, y) == {i \in 1..Len(ps) : ShapeContains(ps[i], x, y)}

\* C16: for every pointer position the hit test returns the highest-index
\* placement whose shape (disc of radius w/2 for the dot, w-by-h rectangle
\* rotated by its angle otherwise) contains the point, and none when no shape
\* contains it; a dot placed last therefore wins every tie
C16_HitTest ==
    \A s \in HitGrid :
        LET c == Containing(placementsRef, s[1], s[2])
            f == found(placementsRef, s[1], s[2])
        IN  /\ c = {} <=> f = 0
            /\ c # {} => f \in c /\ \A j \in c : j <= f
            /\ (c # {} /\ placementsRef[Len(placementsRef)].isDot
                  /\ Len(placementsRef) \in c) => f = Len(placementsRef)

\* C16 witness: a pointer move has hit a point that lies inside a turned tile,
\* a second tile and the dot at once, and the dot was reported
C16_Witness ==
    /\ pointerEvents > 0
    /\ Cardinality(Containing(placementsRef, popupPosition.x, popupPosition.y)) >= 3
    /\ \E i \in Containing(placementsRef, popupPosition.x, popupPosition.y) :
          placementsRef[i].angle % 2 = 1
    /\ hoveredImage = placementsRef[Len(placementsRef)].img
    /\ placementsRef[Len(placementsRef)].isDot

\* ---------------------------------------------------------------------------
\* One pass from the end of loading to its export, frame by frame
\* ---------------------------------------------------------------------------

\* a display refreshing every ShortFrameMs, or stalling for FrameMs
ShortFrameMs == 100
FrameGaps == {ShortFrameMs, FrameMs}

TimelineStreams == {GlyphStream, BlankStream, EdgeStream}

\* the component right after ImagesChange(MixedImages) on first render, for
\* either rendering of the glyph mask
TimelineInit ==
    /\ loadedData = <<>>
    /\ maskData \in {MaskGlyph, MaskEdge}
    /\ placements = <<>>
    /\ attempts = 0
    /\ genPc = "component"
    /\ OthersIdle
    /\ placementsRef = <<>>
    /\ mounted = TRUE
    /\ images = MixedImages
    /\ changes = 1
    /\ passCount = 1
    /\ effectPass = 1
    /\ pass = [p \in 1..MaxChanges |->
                  IF p = 1
                  THEN [st |-> "loading", imgs |-> MixedImages, isMounted |-> TRUE,
                        startTime |-> None, frameDue |-> None, placements |-> <<>>,
                        durationOffset |-> <<>>, buffers |-> {}, error |-> FALSE, origin |-> <<>>]
                  ELSE IdlePass]
    /\ isGenerating = TRUE
    /\ downloadUrl = NoUrl
    /\ hoveredImage = [kind |-> "none"]
    /\ activeTile = NoTile
    /\ isExpanded = FALSE
    /\ lastInteractionRef = 0
    /\ popupCountRef = 0
    /\ initialTimer = None
    /\ intervalId = None
    /\ nestedTimers = {}
    /\ pointerEvents = 0
    /\ popupPosition = [x |-> 0, y |-> 0]
    /\ lastDraw = NoDraw
    /\ now = 0

TimelineNext ==
    \/ \E stream \in TimelineStreams, gap \in FrameGaps : LoadDone(1, stream, gap, "full")
    \/ \E pmCtx \in BOOLEAN, gap \in FrameGaps : animate(1, pmCtx, gap)
    \/ Tick

SpecTimeline == TimelineInit /\ [][TimelineNext]_vars

\* pass p takes the settle branch in this step
Settles(p) == pass[p].st = "animating" /\ pass'[p].st = "settled"

\* time since pass p called performance.now() in generateMosaic
Elapsed(p) == now - pass[p].startTime

\* the reveal order and the start offset it gives each group
RevealOrder == <<"J", "I", "O", "DOT">>
Rank(g) == CHOOSE k \in 1..Len(RevealOrder) : RevealOrder[k] = g
SteppedStart(g) == J_START + (Rank(g) - 1) * (LETTER_ANIM_DURATION + DELAY_BETWEEN_LETTERS)

\* C17: the groups are revealed in the order J, I, O, dot, then Settle, then
\* export: a frame draws a tile only when its group's start offset has been
\* reached, consecutive start offsets differ by the letter duration plus the
\* pause, Settle does not come before the dot's reveal has run its full
\* duration, and the export changes only in a step that settles
C17_RevealOrder ==
    [][/\ \A k \in 1..Len(RevealOrder) : groupStart(RevealOrder[k]) = SteppedStart(RevealOrder[k])
       /\ \A p \in DOMAIN pass :
             /\ FrameRuns(p) /\ lastDraw'.kind = "frame" =>
                   \A i \in lastDraw'.tiles :
                       Elapsed(p) >= SteppedStart(pass[p].placements[i].group)
             /\ Settles(p) => Elapsed(p) >= SteppedStart("DOT") + DOT_DURATION
       /\ downloadUrl' # downloadUrl => \E p \in DOMAIN pass : Settles(p)]_vars

\* C17 witness: a frame between two group starts has been drawn: it shows a
\* tile of a group that has started and leaves out one whose group has not
C17_Witness ==
    /\ lastDraw.kind = "frame"
    /\ pass[1].st = "animating"
    /\ lastDraw.tiles # {}
    /\ \E i \in 1..Len(pass[1].placements) :
          /\ i \notin lastDraw.tiles
          /\ \E j \in lastDraw.tiles :
                Rank(pass[1].placements[j].group) < Rank(pass[1].placements[i].group)

\* the sum of three letter reveals with their pauses, the dot's reveal and the
\* hold before Settle
RevealSum ==
    3 * (LETTER_ANIM_DURATION + DELAY_BETWEEN_LETTERS) + DOT_DURATION + SettleHold

\* C18 as stated: the animation lasts 3 x (groupDuration + interGroupPause) +
\* dotDuration + trailingBuffer whatever the number of tiles: a frame settles
\* exactly when that much time has elapsed
C18_ClosedForm ==
    [][\A p \in DOMAIN pass :
          FrameRuns(p) => (Settles(p) <=> Elapsed(p) >= RevealSum)]_vars

\* C18 amended: the animation lasts the initial offset J_START plus 3 x
\* (groupDuration + interGroupPause) + dotDuration + trailingBuffer whatever
\* the number of tiles: a frame settles exactly when that much time has elapsed
C18_ClosedFormWithIntro ==
    [][\A p \in DOMAIN pass :
          FrameRuns(p) => (Settles(p) <=> Elapsed(p) >= J_START + RevealSum)]_vars

\* C18 witness: a layout of several tiles has settled in the frame at exactly
\* J_START + RevealSum
C18_Witness ==
    /\ pass[1].st = "settled"
    /\ Len(pass[1].placements) > 1
    /\ lastDraw.kind = "settle"
    /\ now - pass[1].startTime = J_START + RevealSum

\* C19: Settle runs at most once per pass and in the first frame whose elapsed
\* time has reached the total duration: a frame before that time requests the
\* next frame, a frame at or after it settles and requests none, and once a
\* pass has settled it draws nothing more and the export no longer changes
C19_SettleOnce ==
    [][\A p \in DOMAIN pass :
          /\ FrameRuns(p) /\ Elapsed(p) < TOTAL_DURATION =>
                /\ pass'[p].st = "animating"
                /\ pass'[p].frameDue > now
                /\ lastDraw'.kind = "frame"
          /\ FrameRuns(p) /\ Elapsed(p) >= TOTAL_DURATION =>
                /\ pass'[p].st = "settled"
                /\ pass'[p].frameDue = None
          /\ pass[p].st = "settled" =>
                /\ pass'[p].st = "settled"
                /\ pass'[p].frameDue = None
                /\ lastDraw' # lastDraw => lastDraw'.pass # p
                /\ downloadUrl' # downloadUrl => downloadUrl'.pass # p]_vars

\* C19 witness: a pass has settled in the frame at exactly the total duration,
\* time has moved on past it, no frame is pending and the canvas still shows
\* the settled composite
C19_Witness ==
    /\ pass[1].st = "settled"
    /\ pass[1].frameDue = None
    /\ lastDraw = [pass |-> 1, kind |-> "settle", tiles |-> 1..Len(pass[1].placements)]
    /\ now >= pass[1].startTime + TOTAL_DURATION + InitialDelay

\* C20: the encoded export is produced only from the Settle composite (every
\* placement at rest, clipped by the mask, with title and dot circle) and never
\* from an animated frame: whatever downloadUrl holds is a snapshot of a
\* composite showing every placement of its pass
C20_ExportIsComposite ==
    downloadUrl # NoUrl =>
        /\ downloadUrl.kind = "settle"
        /\ downloadUrl.tiles = 1..Len(pass[downloadUrl.pass].placements)

\* the generation pass started last (0 before any pass)
LatestPass == passCount

\* C21: the encoded snapshot is exposed for download only once Settle has
\* completed: whenever a download URL is exposed it is the Settle snapshot of
\* the most recently started pass, and none is exposed while that pass is
\* still loading or animating
C21_ExportAfterSettle ==
    downloadUrl # NoUrl =>
        /\ LatestPass > 0
        /\ pass[LatestPass].st = "settled"
        /\ downloadUrl.pass = LatestPass
        /\ downloadUrl.kind = "settle"

\* C22: the status reports 'still running' (isGenerating true) from the start
\* of a pass until that pass settles or aborts on an empty pool, and never
\* reports 'complete' while a frame loop is still animating
C22_StatusTracksPass ==
    mounted =>
        /\ Animating # {} => isGenerating
        /\ (LatestPass > 0 /\ pass[LatestPass].st \in {"loading", "animating"}) => isGenerating

\* ---------------------------------------------------------------------------
\* One pass over every short list of images, each loading or failing
\* ---------------------------------------------------------------------------

\* every list of 1..MaxImages + 1 supplied images, each a president's or not,
\* each loading or failing
LoadSets ==
    UNION {{[k \in 1..n |-> Entry(k, f[k][1], f[k][2])] :
                f \in [1..n -> BOOLEAN \X BOOLEAN]} : n \in 1..(MaxImages + 1)}

\* the component right after the images prop was first set to one of the lists
LoadInit ==
    /\ loadedData = <<>>
    /\ maskData = MaskGlyph
    /\ placements = <<>>
    /\ attempts = 0
    /\ genPc = "component"
    /\ OthersIdle
    /\ placementsRef = <<>>
    /\ mounted = TRUE
    /\ images \in LoadSets
    /\ changes = 1
    /\ passCount = 1
    /\ effectPass = 1
    /\ pass = [p \in 1..MaxChanges |->
                  IF p = 1
                  THEN [st |-> "loading", imgs |-> images, isMounted |-> TRUE,
                        startTime |-> None, frameDue |-> None, placements |-> <<>>,
                        durationOffset |-> <<>>, buffers |-> {}, error |-> FALSE, origin |-> <<>>]
                  ELSE IdlePass]
    /\ isGenerating = TRUE
    /\ downloadUrl = NoUrl
    /\ hoveredImage = [kind |-> "none"]
    /\ activeTile = NoTile
    /\ isExpanded = FALSE
    /\ lastInteractionRef = 0
    /\ popupCountRef = 0
    /\ initialTimer = None
    /\ intervalId = None
    /\ nestedTimers = {}
    /\ pointerEvents = 0
    /\ popupPosition = [x |-> 0, y |-> 0]
    /\ lastDraw = NoDraw
    /\ now = 0

LoadNext ==
    \/ \E stream \in TimelineStreams : LoadDone(1, stream, FrameMs, "full")
    \/ animate(1, TRUE, FrameMs)
    \/ Tick

SpecLoad == LoadInit /\ [][LoadNext]_vars

\* the supplied images that loaded, in supplied order
RECURSIVE Loaded(_)
Loaded(imgs) ==
    IF imgs = <<>> THEN <<>>
    ELSE IF Head(imgs).ok
         THEN <<[img |-> Head(imgs).img, isPresident |-> Head(imgs).isPresident]>>
                  \o Loaded(Tail(imgs))
         ELSE Loaded(Tail(imgs))

\* the images that failed to load
Failed(imgs) == {imgs[k].img : k \in {j \in 1..Len(imgs) : ~imgs[j].ok}}

\* the load of pass p ends in this step
LoadEnds(p) == pass[p].st = "loading" /\ pass'[p].st # "loading"

\* C23: a load failure of an individual image never fails the pass: whenever
\* at least one image loaded, generation proceeds with exactly the images
\* that loaded, in supplied order, and no placement shows a failed image
C23_FailuresExcluded ==
    [][\A p \in DOMAIN pass :
          (LoadEnds(p) /\ mounted /\ Loaded(pass[p].imgs) # <<>>) =>
              /\ pass'[p].st = "animating"
              /\ \E stream \in TimelineStreams :
                    pass'[p].placements = generateLayout(Loaded(pass[p].imgs), stream)
              /\ placementsRef' = pass'[p].placements
              /\ \A i \in 1..Len(placementsRef') :
                    placementsRef'[i].img \notin Failed(pass[p].imgs)]_vars

\* C23 witness: a pass over a list in which an image failed and others loaded
\* is animating, and its placements show more than one image
C23_Witness ==
    /\ pass[1].st = "animating"
    /\ Failed(pass[1].imgs) # {}
    /\ Cardinality({placementsRef[i].img : i \in 1..Len(placementsRef)}) > 1

\* C24: when every supplied image fails to load the pass aborts with the
\* status 'not generating': it creates no placement, starts no frame loop and
\* draws nothing, then and afterwards
C24_AbortOnEmptyPool ==
    [][\A p \in DOMAIN pass :
          /\ (LoadEnds(p) /\ Loaded(pass[p].imgs) = <<>>) =>
                /\ pass'[p].st = "aborted"
                /\ mounted => ~isGenerating'
                /\ pass'[p].placements = <<>>
                /\ pass'[p].frameDue = None
                /\ placementsRef' = placementsRef
                /\ lastDraw' = lastDraw
          /\ pass[p].st = "aborted" =>
                /\ pass'[p].st = "aborted"
                /\ pass'[p].placements = <<>>
                /\ pass'[p].frameDue = None
                /\ lastDraw' # lastDraw => lastDraw'.pass # p]_vars

\* C24 witness: a pass over several images that all failed has aborted: the
\* status is 'not generating', there is no placement and nothing was drawn
C24_Witness ==
    /\ pass[1].st = "aborted"
    /\ Len(pass[1].imgs) > 1
    /\ ~isGenerating
    /\ placementsRef = <<>>
    /\ lastDraw = NoDraw
    /\ Animating = {}

\* ---------------------------------------------------------------------------
\* The load of one pass on a canvas that is laid out, collapsed or gone
\* ---------------------------------------------------------------------------

\* whether canvas.getBoundingClientRect() has an area, or the canvas has no
\* 2d context to give
Surfaces == {"zero", "full", "noContext"}

SurfaceNext ==
    \/ \E stream \in TimelineStreams, area \in Surfaces : LoadDone(1, stream, FrameMs, area)
    \/ animate(1, TRUE, FrameMs)
    \/ Unmount
    \/ Tick

SpecSurface == LoadInit /\ [][SurfaceNext]_vars

\* C25: with a missing or zero-area output surface generation is a guarded
\* no-op: it returns before allocating the mask or any buffer, creates no
\* placements, starts no timeline and raises no error
C25_GuardedNoOp ==
    \A p \in DOMAIN pass :
        pass[p].st \in {"noCanvas", "zeroArea"} =>
            /\ pass[p].buffers = {}
            /\ ~pass[p].error
            /\ pass[p].placements = <<>>
            /\ pass[p].frameDue = None

\* the group revealed right after g
Follows(h, g) == Rank(h) = Rank(g) + 1

\* C27: when a group's reveal starts every tile of the group revealed before
\* it has reached progress 1 and is drawn at its target: every tile duration,
\* whatever its random offset, is shorter than the letter duration plus the
\* pause, so no tile is in flight when the next reveal starts
C27_PauseBetweenReveals ==
    [][/\ \A n \in 0..(RandDen - 1) :
             LETTER_ANIM_DURATION + durationNoise(n)
                 < LETTER_ANIM_DURATION + DELAY_BETWEEN_LETTERS
       /\ \A p \in DOMAIN pass :
             FrameRuns(p) =>
                 \A i \in 1..Len(pass[p].placements) :
                     \A h \in {RevealOrder[k] : k \in 1..Len(RevealOrder)} :
                         (/\ Follows(h, pass[p].placements[i].group)
                          /\ Elapsed(p) >= SteppedStart(h)) =>
                             /\ tileProgress(pass[p].placements[i],
                                             pass[p].durationOffset[i], Elapsed(p)) = Thousand
                             /\ drawnAt(pass[p].placements[i], pass[p].origin[i],
                                        pass[p].durationOffset[i], Elapsed(p))
                                    = [x |-> pass[p].placements[i].cx,
                                       y |-> pass[p].placements[i].cy]]_vars

\* C27 witness: the frame at the very start of the o's reveal has been drawn
\* for a layout with tiles in the i and in the o: it shows the i's tile and
\* not yet the o's
C27_Witness ==
    /\ pass[1].st = "animating"
    /\ lastDraw.kind = "frame"
    /\ now - pass[1].startTime = SteppedStart("O")
    /\ pass[1].frameDue > now
    /\ \E i, j \in 1..Len(pass[1].placements) :
          /\ pass[1].placements[i].group = "I"
          /\ pass[1].placements[j].group = "O"
          /\ i \in lastDraw.tiles
          /\ j \notin lastDraw.tiles

\* the settled component with every pending timer eventually firing
FairSpecSpot ==
    /\ SpecSpot
    /\ WF_vars(Tick)
    /\ WF_vars(\E i \in 1..(targetCount + 1) : InitialTimerFire(i))
    /\ WF_vars(\E i \in 1..(targetCount + 1) : IntervalFire(i))
    /\ WF_vars(\E t \in nestedTimers : ExpandFire(t))
    /\ WF_vars(\E t \in nestedTimers : CollapseFire(t))
    /\ WF_vars(\E t \in nestedTimers : RemoveFire(t))

\* the ids a spotlight can carry within the time modelled
SpotIds == (0..MaxChanges) \X (1..((MaxTime \div InitialDelay) + 1))

\* time from a spotlight's start to its removal
SpotlightLife == CollapseDelay + RemoveDelay

\* a nested timer firing in this step changes what is shown
TimerActs(t) == TimerFires(t) /\ (isExpanded' # isExpanded \/ activeTile' # activeTile)

\* C28: every spotlight shown starts collapsed at its tile, is expanded, is
\* collapsed again and is then removed, in this order; no timer of an earlier
\* spotlight acts while a later one is shown; and every spotlight is
\* eventually removed
C28_SpotlightLifecycle ==
    /\ [][/\ SpotlightStarts => ~isExpanded'
          /\ \A t \in nestedTimers :
                (TimerActs(t) /\ activeTile # NoTile) =>
                    /\ t.spot = activeTile.id
                    /\ t.kind = "expand" =>
                          (~isExpanded /\ isExpanded' /\ activeTile' = activeTile)
                    /\ t.kind = "collapse" =>
                          (isExpanded /\ ~isExpanded' /\ activeTile' = activeTile)
                    /\ t.kind = "remove" =>
                          (~isExpanded /\ ~isExpanded' /\ activeTile' = NoTile)]_vars
    /\ \A x \in SpotIds :
          [](activeTile.id = x /\ now + SpotlightLife <= MaxTime => <>(activeTile.id # x))

\* C28 witness: a spotlight has gone through its whole life and been removed
\* by its own timer, and nothing is shown
C28_Witness ==
    /\ popupCountRef > 0
    /\ activeTile = NoTile
    /\ ~isExpanded
    /\ nestedTimers = {}
    /\ now >= SettleTime + InitialDelay + SpotlightLife
    /\ lastInteractionRef = 0

\* the eligible pool: the images that are not a president's, or every loaded
\* image when all are
Pool(data) ==
    IF \E k \in 1..Len(data) : ~data[k].isPresident
    THEN SelectSeq(data, LAMBDA d : ~d.isPresident)
    ELSE data

\* C29: the k-th accepted non-dot placement, counting from 0, takes the pool
\* image with index k mod poolSize, and its thumbnail and blurred thumbnail
\* are the cache entries of that same pool index
C29_RoundRobin ==
    \A i \in 1..Len(placements) :
        ~placements[i].isDot =>
            LET k == (i - 1) % Len(Pool(loadedData))
            IN  /\ placements[i].img = Pool(loadedData)[k + 1].img
                /\ placements[i].thumb =
                       [kind |-> "thumb", key |-> k + 1, src |-> placements[i].img]
                /\ placements[i].blurredThumb =
                       [kind |-> "blurred", key |-> k + 1, src |-> placements[i].img]

\* C29 witness: with a pool of two images the loop has accepted two tiles, the
\* second showing the second pool image from the second cache entry
C29_Witness ==
    /\ Len(Pool(loadedData)) = 2
    /\ Len(placements) >= 2
    /\ ~placements[1].isDot /\ ~placements[2].isDot
    /\ placements[1].img # placements[2].img
    /\ placements[2].thumb.key = 2

\* origin + (target - origin) x eased(progress) for a placement, with the back
\* curve for a tile of a letter group and the elastic curve for the dot
InterpolatedAt(tile, origin, offset, elapsed) ==
    LET e == IF tile.isDot
             THEN easeOutElastic(tileProgress(tile, offset, elapsed))
             ELSE easeOutBack(tileProgress(tile, offset, elapsed))
    IN  [x |-> lerp(origin.sx, tile.cx, e), y |-> lerp(origin.sy, tile.cy, e)]

\* C30: in every animated frame a started tile is drawn at origin + (target -
\* origin) x eased(progress), where eased is the back curve for the tiles of
\* the letter groups and the elastic curve for the dot
C30_EasedPosition ==
    [][\A p \in DOMAIN pass :
          (FrameRuns(p) /\ lastDraw'.kind = "frame") =>
              \A i \in lastDraw'.tiles :
                  drawnAt(pass[p].placements[i], pass[p].origin[i],
                          pass[p].durationOffset[i], Elapsed(p))
                      = InterpolatedAt(pass[p].placements[i], pass[p].origin[i],
                                       pass[p].durationOffset[i], Elapsed(p))]_vars

\* no pass has anything left to do: none is loading and none is animating
PassesAtRest == \A p \in DOMAIN pass : pass[p].st \notin {"loading", "animating"}

\* C31: every pass that sets the status to running sets it back to not
\* running, by Settle or by an abort path, also when it stops early because
\* the canvas or a drawing context is unavailable: once no pass of the mounted
\* component is loading or animating any more, the status is not running
C31_StatusReturns == (mounted /\ PassesAtRest) => ~isGenerating

\* C32: isExpanded is true only while an active spotlight exists (activeTile
\* is non-null), under any interleaving of auto-triggers, their nested timers
\* and pointer moves.
C32_ExpandedHasTile == isExpanded => activeTile # NoTile

----------------------------------------------------------------------------
(* The upload route, the settings route and the display page (SpecSite):    *)
(* src/app/api/upload/route.ts, src/unnamed/part_006 lines 143-211,         *)
(* src/app/api/images/route.ts and src/app/display/page.tsx                 *)

\* data.filter((img) => !img.isPresident) of the display page
RECURSIVE filteredData(_)
filteredData(data) ==
    IF data = <<>> THEN <<>>
    ELSE IF Head(data).isPresident THEN filteredData(Tail(data))
         ELSE <<Head(data)>> \o filteredData(Tail(data))

\* the page shows the mosaic: mode is MOSAIC and there are images, once the
\* generate effect has set isMosaicRunning
showMosaic == displayMode = "MOSAIC" /\ Len(displayImages) > 0

\* the image list the generate effect hands to the engine (MosaicCanvas's
\* imageUrls or generateCanvasMosaic's imageUrls), None when no engine runs
engineImages == IF showMosaic THEN displayImages ELSE <<None>>

\* GET /api/images: Image.find().limit(50).lean()
GetImages == imageRecords

\* the image-polling effect after a commit that set mode to m: when mode
\* changed, the cleanup clears the interval and, unless m is MOSAIC, the body
\* calls fetchImages() at once
imageEffect(m) ==
    IF m # displayMode /\ m # "MOSAIC" THEN {filteredData(GetImages)} ELSE {}

\* a request arrives at POST /api/upload
UploadArrive(u) ==
    /\ uploads[u].pc = "idle"
    /\ uploads' = [uploads EXCEPT ![u].pc = "settings"]
    /\ UNCHANGED <<settings, imageRecords, settingsPosts, displayMode, displayImages,
                   settingsReplies, imageReplies>>
    /\ UNCHANGED <<mosaicVars, engineVars, batchVars, layoutVars>>

\* 1. Global Settings Check
UploadCheck(u) ==
    /\ uploads[u].pc = "settings"
    /\ uploads' = IF settings.mode # "UPLOAD"
                  THEN [uploads EXCEPT ![u].pc = "done", ![u].status = 403]
                  ELSE [uploads EXCEPT ![u].pc = "formData"]
    /\ UNCHANGED <<settings, imageRecords, settingsPosts, displayMode, displayImages,
                   settingsReplies, imageReplies>>
    /\ UNCHANGED <<mosaicVars, engineVars, batchVars, layoutVars>>

\* what a form can hold
Forms == {"image", "presidentImage", "presidentBadAuth", "noFile", "notImage"}

\* 2. to 4.: read the form, validate the president's auth id and the file
UploadValidate(u, form) ==
    /\ uploads[u].pc = "formData"
    /\ uploads' = IF form = "presidentBadAuth"
                  THEN [uploads EXCEPT ![u].pc = "done", ![u].status = 403]
                  ELSE IF form \in {"noFile", "notImage"}
                  THEN [uploads EXCEPT ![u].pc = "done", ![u].status = 400]
                  ELSE [uploads EXCEPT ![u].pc = "cloud",
                                       ![u].isPresident = (form = "presidentImage")]
    /\ UNCHANGED <<settings, imageRecords, settingsPosts, displayMode, displayImages,
                   settingsReplies, imageReplies>>
    /\ UNCHANGED <<mosaicVars, engineVars, batchVars, layoutVars>>

\* 5. and 6.: the upload to Cloudinary resolves (ok) or rejects
UploadCloud(u, ok) ==
    /\ uploads[u].pc = "cloud"
    /\ uploads' = IF ok
                  THEN [uploads EXCEPT ![u].pc = "create"]
                  ELSE [uploads EXCEPT ![u].pc = "done", ![u].status = 500]
    /\ UNCHANGED <<settings, imageRecords, settingsPosts, displayMode, displayImages,
                   settingsReplies, imageReplies>>
    /\ UNCHANGED <<mosaicVars, engineVars, batchVars, layoutVars>>

\* 7. and 8.: Image.create and the success response
UploadCreate(u) ==
    /\ uploads[u].pc = "create"
    /\ imageRecords' = Append(imageRecords, [id |-> Len(imageRecords) + 1,
                                             isPresident |-> uploads[u].isPresident])
    /\ uploads' = [uploads EXCEPT ![u].pc = "done", ![u].status = 200]
    /\ UNCHANGED <<settings, settingsPosts, displayMode, displayImages,
                   settingsReplies, imageReplies>>
    /\ UNCHANGED <<mosaicVars, engineVars, batchVars, layoutVars>>

\* a client (the control panel, or any other) sends POST /api/settings with mode m
SendSettings(m) ==
    /\ Cardinality(settingsPosts) < MaxInFlight
    /\ settingsPosts' = settingsPosts \cup {m}
    /\ UNCHANGED <<settings, imageRecords, uploads, displayMode, displayImages,
                   settingsReplies, imageReplies>>
    /\ UNCHANGED <<mosaicVars, engineVars, batchVars, layoutVars>>

\* POST /api/settings: if (mode) update.mode = mode; findOneAndUpdate
SettingsPOST(m) ==
    /\ m \in settingsPosts
    /\ settingsPosts' = settingsPosts \ {m}
    /\ settings' = IF m # "none" THEN [settings EXCEPT !.mode = m] ELSE settings
    /\ UNCHANGED <<imageRecords, uploads, displayMode, displayImages,
                   settingsReplies, imageReplies>>
    /\ UNCHANGED <<mosaicVars, engineVars, batchVars, layoutVars>>

\* the settings interval fires: fetch('/api/settings'), answered by GET with
\* the settings document
fetchSettings ==
    /\ Cardinality(settingsReplies) < MaxInFlight
    /\ settingsReplies' = settingsReplies \cup {settings.mode}
    /\ UNCHANGED <<settings, imageRecords, uploads, settingsPosts, displayMode,
                   displayImages, imageReplies>>
    /\ UNCHANGED <<mosaicVars, engineVars, batchVars, layoutVars>>

\* the response arrives: setMode(data.mode), then the effects of the commit
fetchSettingsDone(m) ==
    /\ m \in settingsReplies
    /\ settingsReplies' = settingsReplies \ {m}
    /\ displayMode' = m
    /\ imageReplies' = imageReplies \cup imageEffect(m)
    /\ UNCHANGED <<settings, imageRecords, uploads, settingsPosts, displayImages>>
    /\ UNCHANGED <<mosaicVars, engineVars, batchVars, layoutVars>>

\* the image interval fires (it is armed while mode is not MOSAIC):
\* fetch('/api/images'), answered by GET with the image records
fetchImages ==
    /\ displayMode # "MOSAIC"
    /\ Cardinality(imageReplies) < MaxInFlight
    /\ imageReplies' = imageReplies \cup {filteredData(GetImages)}
    /\ UNCHANGED <<settings, imageRecords, uploads, settingsPosts, displayMode,
                   displayImages, settingsReplies>>
    /\ UNCHANGED <<mosaicVars, engineVars, batchVars, layoutVars>>

\* the response arrives: setImages(filteredData)
fetchImagesDone ==
    /\ \E data \in imageReplies :
          /\ imageReplies' = imageReplies \ {data}
          /\ displayImages' = data
    /\ UNCHANGED <<settings, imageRecords, uploads, settingsPosts, displayMode,
                   settingsReplies>>
    /\ UNCHANGED <<mosaicVars, engineVars, batchVars, layoutVars>>

\* a click on one of the engine buttons, shown while the mosaic is not
handleGenerateMosaic ==
    /\ ~showMosaic
    /\ displayMode' = IF Len(displayImages) > 0 THEN "MOSAIC" ELSE displayMode
    /\ settingsPosts' = settingsPosts \cup
                           {IF Len(displayImages) > 0 THEN "MOSAIC" ELSE "none"}
    /\ imageReplies' = imageReplies \cup imageEffect(displayMode')
    /\ UNCHANGED <<settings, imageRecords, uploads, displayImages, settingsReplies>>
    /\ UNCHANGED <<mosaicVars, engineVars, batchVars, layoutVars>>

\* the display page is opened on a server without image records: both
\* polling effects make their initial fetch
SiteInit ==
    /\ loadedData = <<>>
    /\ maskData = MaskGlyph
    /\ placements = <<>>
    /\ attempts = 0
    /\ genPc = "component"
    /\ placementsRef = <<>>
    /\ CompIdle
    /\ settings = [mode |-> "UPLOAD"]
    /\ imageRecords = <<>>
    /\ uploads = [u \in 1..MaxUploads |-> NoUpload]
    /\ settingsPosts = {}
    /\ displayMode = "UPLOAD"
    /\ displayImages = <<>>
    /\ settingsReplies = {settings.mode}
    /\ imageReplies = {filteredData(GetImages)}
    /\ EngineIdle
    /\ BatchIdle
    /\ LayoutIdle

SiteNext ==
    \/ \E u \in 1..MaxUploads : UploadArrive(u)
    \/ \E u \in 1..MaxUploads : UploadCheck(u)
    \/ \E u \in 1..MaxUploads, form \in Forms : UploadValidate(u, form)
    \/ \E u \in 1..MaxUploads, ok \in BOOLEAN : UploadCloud(u, ok)
    \/ \E u \in 1..MaxUploads : UploadCreate(u)
    \/ \E m \in ValidModes : SendSettings(m)
    \/ \E m \in ValidModes \cup {"none"} : SettingsPOST(m)
    \/ fetchSettings
    \/ \E m \in ValidModes : fetchSettingsDone(m)
    \/ fetchImages
    \/ fetchImagesDone
    \/ handleGenerateMosaic

SpecSite == SiteInit /\ [][SiteNext]_vars

\* C33: once the display page's mode is MOSAIC, its image list is no longer
\* replaced by an image-poll result, so the image set handed to the engine does
\* not change during a mosaic run, also when a poll request was in flight at
\* the moment the mode changed.
C33_ImagesFixedInMosaic ==
    [][(displayMode = "MOSAIC" /\ displayMode' = "MOSAIC")
          => (displayImages' = displayImages /\ engineImages' = engineImages)]_vars

\* C34: no image record is created while the settings mode is not UPLOAD, under
\* any interleaving of upload requests with mode changes: an upload request
\* handled in mode WAITING or MOSAIC stores nothing.
C34_NoRecordOutsideUpload ==
    [][imageRecords' # imageRecords => settings.mode = "UPLOAD"]_vars

----------------------------------------------------------------------------
(* generateCanvasMosaic (SpecEngine): src/unnamed/part_005                  *)
(* Progress and easing are carried in thousandths; the slots are 1..slots   *)
(* in the order of the slots array.                                         *)

MaxSlots == 3

MaxUrls == 3

\* time between two frame callbacks: one or two display frames of EngineGap ms
EngineGap == 700

\* the clock stops the model here
MaxEngineTime == 12000

INTRO_DURATION == 800

FILL_DURATION == 2800

\* DURATION of triggerSpotlight
SPOT_DURATION == 900

\* const delay = 4000 + Math.random() * 2000
SpotDelays == {4000, 5000}

EngineGaps == {EngineGap, 2 * EngineGap}

\* Array.from(new Set(bodyUrls)).length for n distinct urls
uniqueBodyUrls(n) == IF n > 1 THEN n - 1 ELSE n

\* requestAnimationFrame(fn) and setTimeout(fn, delay) hand out a new id
newHandle == handles + 1

cancelAnimationFrame_none(id, pending) == pending

\* cancelAnimationFrame(id)
cancelAnimationFrame(id, pending) == {c \in pending : c.id # id}

\* clearTimeout(id)
clearTimeout(id, pending) == pending \ {id}

\* easeInOutCubic(t), times n and floored: t < 0.5 ? 4 t^3 : 1 - (-2 t + 2)^3 / 2.
\* p is t in thousandths; the cube is cut to 1e-7 before it is multiplied by n,
\* rounded so that the result is never above the exact one.
easedCount(p, n) ==
    IF p < Thousand \div 2
    THEN (((4 * p * p * p) \div 100) * n) \div 10000000
    ELSE LET c == ((2 * Thousand - 2 * p) * (2 * Thousand - 2 * p) * (2 * Thousand - 2 * p)) \div 2
             c7 == (c + 99) \div 100
         IN  n - ((c7 * n + 9999999) \div 10000000)

\* Math.min(mosaicElapsed / FILL_DURATION, 1), in thousandths
fillProgress(mosaicElapsed) ==
    IF mosaicElapsed >= FILL_DURATION THEN Thousand
    ELSE (Thousand * mosaicElapsed) \div FILL_DURATION

fillFrom_start(drawn) == 1

\* for (let i = drawnCount; ...): the first slot a fill loop draws
fillFrom(drawn) == drawn + 1

\* the draw calls of a fill loop from drawnCount up to (not including) slot index to
fillDraws(drawn, to) ==
    [i \in 1..(to - fillFrom(drawn) + 1) |-> [draw |-> "slot", index |-> fillFrom(drawn) + i - 1]]

\* drawDot()
drawDot(img) == IF img THEN <<[draw |-> "dot", index |-> 0]>> ELSE <<>>

\* generateCanvasMosaic returns: with no context or no url nothing is started,
\* otherwise render() has run up to its first await
EngineInit ==
    /\ loadedData = <<>>
    /\ maskData = MaskGlyph
    /\ placements = <<>>
    /\ attempts = 0
    /\ genPc = "component"
    /\ placementsRef = <<>>
    /\ CompIdle
    /\ SiteIdle
    /\ BatchIdle
    /\ LayoutIdle
    /\ slots \in 0..MaxSlots
    /\ \E imageUrls \in 0..MaxUrls, ctx \in BOOLEAN :
          /\ renderPc = IF ~ctx \/ imageUrls = 0 THEN "returned" ELSE "loadDot"
          /\ loadedBodyImages = IF renderPc = "returned" THEN 0 ELSE uniqueBodyUrls(imageUrls)
    /\ isDestroyed = FALSE
    /\ activeRafId = None
    /\ activeTimeoutId = None
    /\ rafCallbacks = {}
    /\ timeouts = {}
    /\ handles = 0
    /\ dotImg = FALSE
    /\ startTime = None
    /\ drawnCount = 0
    /\ drawLog = <<>>
    /\ startSpotlight = None
    /\ timestamp = 0

\* loadImg(dotUrl) settles (ok: loaded); render goes on to load the body images
DotLoaded(ok) ==
    /\ renderPc = "loadDot"
    /\ dotImg' = ok
    /\ renderPc' = IF isDestroyed THEN "returned" ELSE "loadBody"
    /\ UNCHANGED <<slots, isDestroyed, activeRafId, activeTimeoutId, rafCallbacks, timeouts,
                   handles, loadedBodyImages, startTime, drawnCount, drawLog,
                   startSpotlight, timestamp>>
    /\ UNCHANGED <<mosaicVars, siteVars, batchVars, layoutVars>>

\* Promise.all settles with n of the body images loaded; render requests the
\* first frame unless destroyed or nothing loaded
BodyLoaded(n) ==
    /\ renderPc = "loadBody"
    /\ n <= loadedBodyImages
    /\ loadedBodyImages' = n
    /\ IF isDestroyed \/ (n = 0 /\ ~dotImg)
       THEN /\ renderPc' = "returned"
            /\ UNCHANGED <<activeRafId, rafCallbacks, handles>>
       ELSE /\ renderPc' = "running"
            /\ handles' = newHandle
            /\ activeRafId' = newHandle
            /\ rafCallbacks' = rafCallbacks \cup {[id |-> newHandle, fn |-> "frame"]}
    /\ UNCHANGED <<slots, isDestroyed, activeTimeoutId, timeouts, dotImg, startTime,
                   drawnCount, drawLog, startSpotlight, timestamp>>
    /\ UNCHANGED <<mosaicVars, siteVars, batchVars, layoutVars>>

\* a frame callback `frame` runs, gap ms after the previous callback
frame(gap) ==
  \E c \in rafCallbacks :
    /\ c.fn = "frame"
    /\ timestamp + gap <= MaxEngineTime
    /\ timestamp' = timestamp + gap
    /\ IF isDestroyed
       THEN /\ rafCallbacks' = rafCallbacks \ {c}
            /\ UNCHANGED <<renderPc, activeRafId, activeTimeoutId, timeouts, handles,
                           startTime, drawnCount, drawLog>>
       ELSE LET start == IF startTime = None THEN timestamp' ELSE startTime
                totalElapsed == timestamp' - start
                mosaicElapsed == totalElapsed - INTRO_DURATION
                progress == fillProgress(mosaicElapsed)
                target == easedCount(progress, slots)
                upTo == IF progress < Thousand THEN target ELSE slots
                throws == upTo > drawnCount /\ loadedBodyImages = 0
            IN  /\ startTime' = start
                /\ IF totalElapsed < INTRO_DURATION
                   THEN \* PHASE 1: the title only
                        /\ handles' = newHandle
                        /\ activeRafId' = newHandle
                        /\ rafCallbacks' = (rafCallbacks \ {c}) \cup
                                              {[id |-> newHandle, fn |-> "frame"]}
                        /\ UNCHANGED <<renderPc, activeTimeoutId, timeouts, drawnCount, drawLog>>
                   ELSE IF throws
                   THEN \* ctx.drawImage(undefined, ...) raises TypeError
                        /\ renderPc' = "threw"
                        /\ rafCallbacks' = rafCallbacks \ {c}
                        /\ UNCHANGED <<activeRafId, activeTimeoutId, timeouts, handles,
                                       drawnCount, drawLog>>
                   ELSE IF progress < Thousand
                   THEN \* PHASE 2: draw up to target, ask for the next frame
                        /\ drawLog' = IF target > drawnCount
                                      THEN drawLog \o fillDraws(drawnCount, target)
                                      ELSE drawLog
                        /\ drawnCount' = IF target > drawnCount THEN target
                                         ELSE drawnCount
                        /\ handles' = newHandle
                        /\ activeRafId' = newHandle
                        /\ rafCallbacks' = (rafCallbacks \ {c}) \cup
                                              {[id |-> newHandle, fn |-> "frame"]}
                        /\ UNCHANGED <<renderPc, activeTimeoutId, timeouts>>
                   ELSE \* the fill ends: the rest of the slots, the dot, the first spotlight
                        /\ drawLog' = (IF target > drawnCount
                                       THEN drawLog \o fillDraws(drawnCount, target)
                                       ELSE drawLog)
                                      \o fillDraws(IF target > drawnCount
                                                   THEN target ELSE drawnCount, slots)
                                      \o drawDot(dotImg)
                        /\ drawnCount' = IF target > drawnCount THEN target
                                         ELSE drawnCount
                        /\ renderPc' = "filled"
                        /\ handles' = newHandle
                        /\ activeTimeoutId' = newHandle
                        /\ timeouts' = timeouts \cup {newHandle}
                        /\ rafCallbacks' = rafCallbacks \ {c}
                        /\ UNCHANGED activeRafId
    /\ UNCHANGED <<slots, isDestroyed, dotImg, loadedBodyImages, startSpotlight>>
    /\ UNCHANGED <<mosaicVars, siteVars, batchVars, layoutVars>>

\* the spotlight timeout fires after delay ms: triggerSpotlight
triggerSpotlight(delay) ==
  \E t \in timeouts :
    /\ timestamp + delay <= MaxEngineTime
    /\ timestamp' = timestamp + delay
    /\ timeouts' = timeouts \ {t}
    /\ IF isDestroyed \/ slots = 0 \/ loadedBodyImages = 0
       THEN UNCHANGED <<activeRafId, rafCallbacks, handles, startSpotlight>>
       ELSE /\ startSpotlight' = None
            /\ handles' = newHandle
            /\ activeRafId' = newHandle
            /\ rafCallbacks' = rafCallbacks \cup {[id |-> newHandle, fn |-> "animateTile"]}
    /\ UNCHANGED <<slots, renderPc, isDestroyed, activeTimeoutId, dotImg, loadedBodyImages,
                   startTime, drawnCount, drawLog>>
    /\ UNCHANGED <<mosaicVars, siteVars, batchVars, layoutVars>>

\* a frame callback `animateTile` runs, gap ms after the previous callback
animateTile(gap) ==
  \E c \in rafCallbacks :
    /\ c.fn = "animateTile"
    /\ timestamp + gap <= MaxEngineTime
    /\ timestamp' = timestamp + gap
    /\ rafCallbacks' = IF isDestroyed \/ timestamp' - (IF startSpotlight = None THEN timestamp'
                                                       ELSE startSpotlight) >= SPOT_DURATION
                       THEN rafCallbacks \ {c}
                       ELSE (rafCallbacks \ {c}) \cup {[id |-> newHandle, fn |-> "animateTile"]}
    /\ IF isDestroyed
       THEN UNCHANGED <<activeRafId, activeTimeoutId, timeouts, handles, startSpotlight>>
       ELSE LET start == IF startSpotlight = None THEN timestamp' ELSE startSpotlight
                elapsed == timestamp' - start
            IN  /\ startSpotlight' = start
                /\ handles' = newHandle
                /\ IF elapsed < SPOT_DURATION
                   THEN /\ activeRafId' = newHandle
                        /\ UNCHANGED <<activeTimeoutId, timeouts>>
                   ELSE \* scheduleNextSpotlight
                        /\ activeTimeoutId' = newHandle
                        /\ timeouts' = timeouts \cup {newHandle}
                        /\ UNCHANGED activeRafId
    /\ UNCHANGED <<slots, renderPc, isDestroyed, dotImg, loadedBodyImages, startTime,
                   drawnCount, drawLog>>
    /\ UNCHANGED <<mosaicVars, siteVars, batchVars, layoutVars>>

\* controller.destroy()
destroy ==
    /\ renderPc # "none"
    /\ ~isDestroyed
    /\ isDestroyed' = TRUE
    /\ rafCallbacks' = IF activeRafId # None
                       THEN cancelAnimationFrame(activeRafId, rafCallbacks) ELSE rafCallbacks
    /\ activeRafId' = None
    /\ timeouts' = IF activeTimeoutId # None
                   THEN clearTimeout(activeTimeoutId, timeouts) ELSE timeouts
    /\ activeTimeoutId' = None
    /\ UNCHANGED <<slots, renderPc, handles, dotImg, loadedBodyImages, startTime,
                   drawnCount, drawLog, startSpotlight, timestamp>>
    /\ UNCHANGED <<mosaicVars, siteVars, batchVars, layoutVars>>

EngineNext ==
    \/ \E ok \in BOOLEAN : DotLoaded(ok)
    \/ \E n \in 0..MaxUrls : BodyLoaded(n)
    \/ \E gap \in EngineGaps : frame(gap)
    \/ \E delay \in SpotDelays : triggerSpotlight(delay)
    \/ \E gap \in EngineGaps : animateTile(gap)
    \/ destroy

SpecEngine == EngineInit /\ [][EngineNext]_vars

\* C35: at every moment at most one continuation of a controller is pending
\* (one frame callback or one spotlight timeout), it is the one whose id was
\* recorded last, and after destroy() no continuation is pending.
C35_OnePending ==
    /\ Cardinality(rafCallbacks) + Cardinality(timeouts) <= 1
    /\ \A c \in rafCallbacks : c.id = activeRafId
    /\ \A t \in timeouts : t = activeTimeoutId
    /\ isDestroyed => (rafCallbacks = {} /\ timeouts = {})

\* a controller destroyed while a frame of the fill was pending, and one
\* destroyed while a spotlight timeout was pending
C35_Witness ==
    /\ isDestroyed
    /\ renderPc \in {"running", "filled"}
    /\ handles >= 2
    /\ rafCallbacks = {}
    /\ timeouts = {}

\* the slot indexes 1..n in order
SlotOrder(n) == [i \in 1..n |-> [draw |-> "slot", index |-> i]]

\* the fill has run its last frame
FillComplete == renderPc = "filled"

\* the dot has been drawn
DotDrawn == drawLog # <<>> /\ drawLog[Len(drawLog)].draw = "dot"

\* the draw calls of the slots so far
SlotDraws == IF DotDrawn THEN SubSeq(drawLog, 1, Len(drawLog) - 1) ELSE drawLog

\* C36: in the fill phase the number of drawn slots never decreases; the slots
\* are drawn in slot order, each once; when the fill completes every slot has
\* been drawn; the dot is drawn only after all slots; and the first spotlight
\* is scheduled only after that.
C36_FillOrder ==
    /\ [][drawnCount' >= drawnCount /\ Len(drawLog') >= Len(drawLog)]_vars
    /\ [](/\ SlotDraws = SlotOrder(Len(SlotDraws))
          /\ Len(SlotDraws) <= slots
          /\ (FillComplete => SlotDraws = SlotOrder(slots))
          /\ (DotDrawn => (FillComplete /\ SlotDraws = SlotOrder(slots)))
          /\ ((activeTimeoutId # None \/ timeouts # {}) =>
                 (FillComplete /\ (dotImg => DotDrawn))))

\* a completed fill of at least three slots, with the dot on top and the
\* first spotlight scheduled
C36_Witness ==
    /\ FillComplete
    /\ slots >= 3
    /\ drawnCount = slots
    /\ DotDrawn
    /\ timeouts # {}

----------------------------------------------------------------------------
(* The progressive batch renderer (SpecBatch):                              *)
(* src/components/MosaicCanvas.tsx, lines 13-133                            *)

MaxRuns == 2

MaxPlacements == 3

MaxBatch == 2

\* intervalMs = 35, the default of the prop
DefaultIntervalMs == 35

\* the value of elapsed / 0 for elapsed > 0
Infinity == 1000000

\* the regions of a placements prop of n placements: an I_DOT cell first
PlacementList(n) ==
    [i \in 1..n |-> [region |-> IF i % 3 = 1 THEN "I_DOT" ELSE IF i % 3 = 2 THEN "J" ELSE "O",
                     item |-> i]]

PlacementLists == {PlacementList(n) : n \in 0..MaxPlacements}

BatchSizes == 0..MaxBatch

IntervalMss == {0, DefaultIntervalMs}

\* Date.now() - startedAt when the images have loaded
Elapseds == {0 - DefaultIntervalMs, 0, DefaultIntervalMs, 2 * DefaultIntervalMs + 10}

RECURSIVE filterItems(_, _)
\* loadedItems.filter(item => (item.placement.region === 'I_DOT') === dot)
filterItems(items, dot) ==
    IF items = <<>> THEN <<>>
    ELSE IF (Head(items).region = "I_DOT") = dot
         THEN <<Head(items)>> \o filterItems(Tail(items), dot)
         ELSE filterItems(Tail(items), dot)

\* const drawQueue = [...teamItems, ...presidentItems]
drawQueue(items) == filterItems(items, FALSE) \o filterItems(items, TRUE)

\* 5. Calculate Fast-forward: initialIndex
initialIndex(startedAt, elapsed, batchSize, intervalMs) ==
    IF ~startedAt \/ elapsed <= 0 THEN 0
    ELSE IF intervalMs = 0
         THEN (IF batchSize > 0 THEN Infinity ELSE 0)   \* Infinity * 0 is NaN: no catch-up
         ELSE (elapsed \div intervalMs) * batchSize

\* queue.slice(from, to) with 0-based from and to, as 1-based positions
slice(queue, from, to) ==
    {i \in 1..Len(queue) : from < i /\ i <= to}

\* drawBatch of the queue positions in idx, in queue order, by run r
RECURSIVE drawBatch(_, _, _)
drawBatch(r, queue, idx) ==
    IF idx = {} THEN <<>>
    ELSE LET i == CHOOSE j \in idx : \A k \in idx : j <= k
         IN  <<[run |-> r, pos |-> i, region |-> queue[i].region, item |-> queue[i].item]>>
             \o drawBatch(r, queue, idx \ {i})

\* clearInterval(intervalRef.current) behind `if (intervalRef.current)`
clearCurrent(live) == IF intervalRef # None THEN live \ {intervalRef} ELSE live

\* the effect body up to the image loads, for a mounted canvas with a context
newRun(pl, startedAt, batchSize, intervalMs) ==
    [st |-> IF Len(pl) = 0 THEN "returned" ELSE "loading",
     placements |-> pl, startedAt |-> startedAt, batchSize |-> batchSize,
     intervalMs |-> intervalMs, currentIndex |-> 0]

\* the component is mounted: the effect runs for the first time
BatchInit ==
    /\ loadedData = <<>>
    /\ maskData = MaskGlyph
    /\ placements = <<>>
    /\ attempts = 0
    /\ genPc = "component"
    /\ placementsRef = <<>>
    /\ CompIdle
    /\ SiteIdle
    /\ EngineIdle
    /\ LayoutIdle
    /\ \E pl \in PlacementLists, startedAt \in BOOLEAN, batchSize \in BatchSizes,
          intervalMs \in IntervalMss :
          runs = <<newRun(pl, startedAt, batchSize, intervalMs)>>
    /\ currentRun = 1
    /\ intervalRef = None
    /\ liveIntervals = {}
    /\ drawCalls = <<>>

\* a prop changes: the cleanup of the previous run, then the effect again
RunEffect(pl, startedAt, batchSize, intervalMs) ==
    /\ currentRun # 0
    /\ Len(runs) < MaxRuns
    /\ liveIntervals' = clearCurrent(liveIntervals)
    /\ runs' = Append(runs, newRun(pl, startedAt, batchSize, intervalMs))
    /\ currentRun' = Len(runs) + 1
    /\ UNCHANGED <<intervalRef, drawCalls>>
    /\ UNCHANGED <<mosaicVars, siteVars, engineVars, layoutVars>>

\* Promise.all(loadPromises) of run r resolves, elapsed ms after startedAt
LoadResolve(r, elapsed) ==
    /\ r \in DOMAIN runs
    /\ runs[r].st = "loading"
    /\ LET queue == drawQueue(runs[r].placements)
           initial == initialIndex(runs[r].startedAt, elapsed, runs[r].batchSize,
                                   runs[r].intervalMs)
       IN  /\ drawCalls' = IF initial > 0
                           THEN drawCalls \o drawBatch(r, queue, slice(queue, 0, initial))
                           ELSE drawCalls
           /\ IF initial >= Len(queue)
              THEN /\ runs' = [runs EXCEPT ![r].st = "done", ![r].currentIndex = initial]
                   /\ UNCHANGED <<intervalRef, liveIntervals>>
              ELSE /\ runs' = [runs EXCEPT ![r].st = "ticking", ![r].currentIndex = initial]
                   /\ liveIntervals' = clearCurrent(liveIntervals) \cup {r}
                   /\ intervalRef' = r
    /\ UNCHANGED currentRun
    /\ UNCHANGED <<mosaicVars, siteVars, engineVars, layoutVars>>

\* the interval of run r fires
IntervalTick(r) ==
    /\ r \in liveIntervals
    /\ LET queue == drawQueue(runs[r].placements)
           from == runs[r].currentIndex
       IN  IF from >= Len(queue)
           THEN /\ liveIntervals' = clearCurrent(liveIntervals)
                /\ UNCHANGED <<runs, drawCalls>>
           ELSE /\ drawCalls' = drawCalls \o
                                   drawBatch(r, queue, slice(queue, from, from + runs[r].batchSize))
                /\ runs' = [runs EXCEPT ![r].currentIndex = from + runs[r].batchSize]
                /\ UNCHANGED liveIntervals
    /\ UNCHANGED <<currentRun, intervalRef>>
    /\ UNCHANGED <<mosaicVars, siteVars, engineVars, layoutVars>>

\* the component is unmounted: the cleanup of the last run
BatchUnmount ==
    /\ currentRun # 0
    /\ liveIntervals' = clearCurrent(liveIntervals)
    /\ currentRun' = 0
    /\ UNCHANGED <<runs, intervalRef, drawCalls>>
    /\ UNCHANGED <<mosaicVars, siteVars, engineVars, layoutVars>>

BatchNext ==
    \/ \E pl \in PlacementLists, startedAt \in BOOLEAN, batchSize \in BatchSizes,
          intervalMs \in IntervalMss : RunEffect(pl, startedAt, batchSize, intervalMs)
    \/ \E r \in 1..MaxRuns, elapsed \in Elapseds : LoadResolve(r, elapsed)
    \/ \E r \in 1..MaxRuns : IntervalTick(r)
    \/ BatchUnmount

SpecBatch == BatchInit /\ [][BatchNext]_vars

\* the image loads settle and a set interval keeps firing
FairSpecBatch ==
    /\ SpecBatch
    /\ \A r \in 1..MaxRuns : WF_vars(\E elapsed \in Elapseds : LoadResolve(r, elapsed))
    /\ \A r \in 1..MaxRuns : WF_vars(IntervalTick(r))

\* the draw calls of run r
DrawnOf(r) == SelectSeq(drawCalls, LAMBDA d : d.run = r)

\* run r has drawn its whole queue
Covers(r) == r \in DOMAIN runs /\ Len(DrawnOf(r)) = Len(runs[r].placements)

\* C37: for every startedAt, batchSize and intervalMs, each placement of the
\* queue is drawn exactly once, in queue order with every non-I_DOT placement
\* before every I_DOT placement, and drawing eventually covers the whole queue
\* of the run in effect, after which the interval is stopped.
C37_DrawsWholeQueue ==
    /\ [](\A r \in DOMAIN runs :
             /\ \A i \in 1..Len(DrawnOf(r)) : DrawnOf(r)[i].pos = i
             /\ \A i, j \in 1..Len(DrawnOf(r)) :
                   (DrawnOf(r)[i].region = "I_DOT" /\ DrawnOf(r)[j].region # "I_DOT") => j < i)
    /\ \A r \in 1..MaxRuns :
          (r \in DOMAIN runs /\ runs[r].st # "returned")
             ~> ((Covers(r) /\ r \notin liveIntervals) \/ currentRun # r)

----------------------------------------------------------------------------
(* generateMosaicLayout (SpecLayout): src/unnamed/part_006, lines 20-136    *)

MaxLayoutImages == 3

MaxLayoutUrls == 2

\* the cells pushed by two nested for loops, the outer one over oLo..oHi and
\* the inner one over iLo..iHi; yOuter tells which of the two is y
gridLoop(oLo, oHi, iLo, iHi, yOuter, region) ==
    [k \in 1..((oHi - oLo + 1) * (iHi - iLo + 1)) |->
        LET o == oLo + ((k - 1) \div (iHi - iLo + 1))
            i == iLo + ((k - 1) % (iHi - iLo + 1))
        IN  [x |-> IF yOuter THEN i ELSE o, y |-> IF yOuter THEN o ELSE i, region |-> region]]

\* if (x < 2 && y < 8) continue; // skip overlap if any
hookSkips(c) == c.x < 2 /\ c.y < 8

\* dist <= radius with centerO = (12, 6) and radius = 3.5, squared and times 4
inO(c) == 4 * ((c.x - 12) * (c.x - 12) + (c.y - 6) * (c.y - 6)) <= 49

\* generateGrid()
generateGrid ==
    gridLoop(2, 8, 2, 3, TRUE, "J")
    \o SelectSeq(gridLoop(8, 9, 0, 3, TRUE, "J"), LAMBDA c : ~hookSkips(c))
    \o gridLoop(6, 7, 0, 1, FALSE, "I_DOT")
    \o gridLoop(6, 7, 3, 9, FALSE, "I_BODY")
    \o SelectSeq(gridLoop(9, 15, 2, 10, FALSE, "O"), LAMBDA c : inO(c))

MOSAIC_GRID == generateGrid

presidentImages(imgs) == SelectSeq(imgs, LAMBDA img : img.isPresident)

regularImages_all(imgs) == imgs

regularImages(imgs) == SelectSeq(imgs, LAMBDA img : ~img.isPresident)

dotSlots == SelectSeq(MOSAIC_GRID, LAMBDA c : c.region = "I_DOT")

otherSlots == SelectSeq(MOSAIC_GRID, LAMBDA c : c.region # "I_DOT")

\* slots.forEach((slot, index) => placements.push({... pool[index % pool.length] ...}))
fillSlots(cells, pool) ==
    IF Len(pool) = 0 THEN <<>>
    ELSE [k \in 1..Len(cells) |->
             [x |-> cells[k].x, y |-> cells[k].y, size |-> 1,
              imageUrl |-> pool[((k - 1) % Len(pool)) + 1].url,
              region |-> cells[k].region]]

generateMosaicLayout(imgs) ==
    fillSlots(dotSlots, presidentImages(imgs)) \o fillSlots(otherSlots, regularImages(imgs))

\* every list of up to n images
ImageLists(n) ==
    UNION {[1..len -> [url : 1..MaxLayoutUrls, isPresident : BOOLEAN]] : len \in 0..n}

LayoutInit ==
    /\ loadedData = <<>>
    /\ maskData = MaskGlyph
    /\ placements = <<>>
    /\ attempts = 0
    /\ genPc = "component"
    /\ placementsRef = <<>>
    /\ CompIdle
    /\ SiteIdle
    /\ EngineIdle
    /\ BatchIdle
    /\ layoutImages \in ImageLists(MaxLayoutImages)
    /\ layoutResult = <<>>

\* the call generateMosaicLayout(images)
Generate ==
    /\ layoutResult = <<>>
    /\ layoutResult' = generateMosaicLayout(layoutImages)
    /\ UNCHANGED layoutImages
    /\ UNCHANGED <<mosaicVars, siteVars, engineVars, batchVars>>

LayoutNext == Generate

SpecLayout == LayoutInit /\ [][LayoutNext]_vars

\* the urls of the images of the argument that are (vip) or are not VIP images
UrlsOf(vip) == {layoutImages[i].url : i \in {j \in 1..Len(layoutImages) :
                                                layoutImages[j].isPresident = vip}}

\* C38: generateMosaicLayout places VIP (isPresident) images only in I_DOT
\* cells and non-VIP images only in the other cells, each placement in a cell
\* of the grid with that cell's region; with no VIP image the I_DOT cells stay
\* empty, and with no non-VIP image every other cell stays empty.
C38_VipOnlyInDot ==
    \A k \in 1..Len(layoutResult) :
        LET p == layoutResult[k]
        IN  /\ \E c \in 1..Len(MOSAIC_GRID) :
                  /\ MOSAIC_GRID[c].x = p.x
                  /\ MOSAIC_GRID[c].y = p.y
                  /\ MOSAIC_GRID[c].region = p.region
            /\ p.region = "I_DOT" => p.imageUrl \in UrlsOf(TRUE)
            /\ p.region # "I_DOT" => p.imageUrl \in UrlsOf(FALSE)

\* a layout of a list with a VIP image and a non-VIP image of different urls:
\* all four I_DOT cells and the other cells are filled
C38_Witness ==
    /\ UrlsOf(TRUE) # {}
    /\ UrlsOf(FALSE) # {}
    /\ UrlsOf(TRUE) \cap UrlsOf(FALSE) = {}
    /\ Cardinality({k \in 1..Len(layoutResult) : layoutResult[k].region = "I_DOT"}) = 4
    /\ \E k \in 1..Len(layoutResult) : layoutResult[k].region = "O"

\* C39: generateMosaicLayout never returns two placements with the same
\* (x, y) cell: each grid cell is filled at most once.
C39_NoCellTwice ==
    \A i, j \in 1..Len(layoutResult) :
        (layoutResult[i].x = layoutResult[j].x /\ layoutResult[i].y = layoutResult[j].y)
            => i = j

====
